---- MODULE Spec2Model ----
(***************************************************************************)
(* Hedge execution engine (src/hedging/execution.py): ExecutionManager,    *)
(* its audit trail and registry, and the pure functions it is built from.  *)
(* Python floats are modelled as IEEE-754 binary64 values with round to    *)
(* nearest, ties to even; Python ints are naturals of arbitrary size.      *)
(***************************************************************************)
EXTENDS Integers, Sequences, FiniteSets, TLC

\* ------------------------------------------------------------------------
\* Arbitrary-size naturals as little-endian sequences of limbs in 0..Base-1
\* (a[1] is the least significant limb, the top limb is not 0, <<>> is 0):
\* Python's int, and the significands of the float operations below.
\* ------------------------------------------------------------------------

\* (An operator's argument is evaluated once, a LET definition at each use:
\* the values used more than once below are passed as arguments.)

\* width of a float's significand, and of one limb
MantBits == 53

LimbBits == 15

Base == 2 ^ LimbBits

RECURSIVE LTrim(_)
LTrim(a) ==
    IF a = <<>> THEN <<>>
    ELSE IF a[Len(a)] = 0 THEN LTrim(SubSeq(a, 1, Len(a) - 1))
    ELSE a

RECURSIVE LFromNat(_)
LFromNat(n) ==
    IF n = 0 THEN <<>> ELSE <<n % Base>> \o LFromNat(n \div Base)

\* for a < 2^31
RECURSIVE LToNat(_)
LToNat(a) ==
    IF a = <<>> THEN 0 ELSE a[1] + Base * LToNat(Tail(a))

Limb(a, i) ==
    IF i <= Len(a) THEN a[i] ELSE 0

RECURSIVE LCmpAt(_, _, _)
LCmpAt(a, b, i) ==
    IF i = 0 THEN 0
    ELSE IF a[i] > b[i] THEN 1
    ELSE IF a[i] < b[i] THEN -1
    ELSE LCmpAt(a, b, i - 1)

\* -1, 0, 1 as a <, =, > b
LCmp(a, b) ==
    IF Len(a) > Len(b) THEN 1
    ELSE IF Len(a) < Len(b) THEN -1
    ELSE LCmpAt(a, b, Len(a))

LMax(a, b) ==
    IF LCmp(b, a) > 0 THEN b ELSE a

LMin(a, b) ==
    IF LCmp(b, a) < 0 THEN b ELSE a

RECURSIVE LAddAt(_, _, _, _)
LAddAt(a, b, i, c) ==
    IF i > Len(a) /\ i > Len(b) THEN (IF c = 0 THEN <<>> ELSE <<c>>)
    ELSE LET s == Limb(a, i) + Limb(b, i) + c
         IN  <<s % Base>> \o LAddAt(a, b, i + 1, s \div Base)

LAdd(a, b) ==
    LAddAt(a, b, 1, 0)

RECURSIVE LSubAt(_, _, _, _)
LSubAt(a, b, i, br) ==
    IF i > Len(a) THEN <<>>
    ELSE LET d == a[i] - Limb(b, i) - br
         IN  <<d % Base>> \o LSubAt(a, b, i + 1, IF d < 0 THEN 1 ELSE 0)

\* a - b for a >= b
LSub(a, b) ==
    LTrim(LSubAt(a, b, 1, 0))

RECURSIVE LMulAt(_, _, _, _)
LMulAt(a, k, i, c) ==
    IF i > Len(a) THEN (IF c = 0 THEN <<>> ELSE <<c>>)
    ELSE LET p == a[i] * k + c
         IN  <<p % Base>> \o LMulAt(a, k, i + 1, p \div Base)

\* a * k for 0 <= k < Base
LMulSmall(a, k) ==
    IF k = 0 THEN <<>> ELSE LMulAt(a, k, 1, 0)

\* a * Base^n
LShiftLimbs(a, n) ==
    IF a = <<>> THEN <<>> ELSE [i \in 1..n |-> 0] \o a

RECURSIVE LMul(_, _)
LMul(a, b) ==
    IF a = <<>> \/ b = <<>> THEN <<>>
    ELSE LAdd(LMulSmall(b, a[1]), LShiftLimbs(LMul(Tail(a), b), 1))

\* a div d for one limb d: the quotient limbs of a[i..1], r the remainder
\* of the limbs above
RECURSIVE LShortAt(_, _, _, _)
LShortAt(a, d, i, r) ==
    IF i = 0 THEN <<>>
    ELSE Append(LShortAt(a, d, i - 1, (r * Base + a[i]) % d),
                (r * Base + a[i]) \div d)

LShortDiv(a, d) ==
    LTrim(LShortAt(a, d, Len(a), 0))

\* a * 2^k and a div 2^k
LShl(a, k) ==
    LShiftLimbs(LMulSmall(a, 2 ^ (k % LimbBits)), k \div LimbBits)

LShr(a, k) ==
    IF k \div LimbBits >= Len(a) THEN <<>>
    ELSE LShortDiv(SubSeq(a, k \div LimbBits + 1, Len(a)),
                   2 ^ (k % LimbBits))

\* the number of bits of a
LBitLen(a) ==
    IF a = <<>> THEN 0
    ELSE LimbBits * (Len(a) - 1)
         + (CHOOSE k \in 1..LimbBits :
                2 ^ k > a[Len(a)] /\ 2 ^ (k - 1) <= a[Len(a)])

\* the largest q in lo..hi with b * q <= r
RECURSIVE QSearch(_, _, _, _)
QSearch(r, b, lo, hi) ==
    IF lo = hi THEN lo
    ELSE LET mid == (lo + hi + 1) \div 2
         IN  IF LCmp(LMulSmall(b, mid), r) <= 0
             THEN QSearch(r, b, mid, hi)
             ELSE QSearch(r, b, lo, mid - 1)

\* the quotient limb of r by b, for r < b * Base and the top limb of b at
\* least Base / 2: it is at most two below the quotient of the leading limbs
QCap(q) ==
    IF q > Base - 1 THEN Base - 1 ELSE q

QHat(r, b) ==
    QCap((Limb(r, Len(b) + 1) * Base + Limb(r, Len(b))) \div b[Len(b)])

QNear(r, b, qhat) ==
    QSearch(r, b, IF qhat < 2 THEN 0 ELSE qhat - 2, qhat)

\* long division of the limbs a[i..1], r the remainder of the limbs above:
\* <<quotient limbs, remainder>>
RECURSIVE LDivAt(_, _, _, _)

LDivCons(sub, q) ==
    <<sub[1] \o <<q>>, sub[2]>>

LDivStep(a, b, i, r2, q) ==
    LDivCons(LDivAt(a, b, i - 1, LSub(r2, LMulSmall(b, q))), q)

LDivLimb(a, b, i, r2) ==
    LDivStep(a, b, i, r2, QNear(r2, b, QHat(r2, b)))

LDivAt(a, b, i, r) ==
    IF i = 0 THEN <<<<>>, r>>
    ELSE LDivLimb(a, b, i, LTrim(<<a[i]>> \o r))

LDivTrim(d, k) ==
    <<LTrim(d[1]), LShr(d[2], k)>>

LDivShifted(a, b, k) ==
    LDivTrim(LDivAt(a, b, Len(a), <<>>), k)

\* <<a div b, a mod b>> for b > 0: both are shifted to bring the top limb
\* of b to at least Base / 2
LDivNormal(a, b, k) ==
    LDivShifted(LShl(a, k), LShl(b, k), k)

LDivMod(a, b) ==
    LDivNormal(a, b, LimbBits - LBitLen(<<b[Len(b)]>>))

\* the i-th bit of a (the least significant is bit 1)
LBit(a, i) ==
    (Limb(a, (i - 1) \div LimbBits + 1) \div (2 ^ ((i - 1) % LimbBits))) % 2

\* ------------------------------------------------------------------------
\* Python float: [s, m, e] is (-1)^s * m * 2^e with m a significand of
\* exactly MantBits bits, or zero (m = <<>>, e = 0, either sign). Every
\* operation computes the exact result and rounds it to nearest, ties to
\* even; a result below the normal range is rounded to a subnormal number
\* or to zero. Inputs are bounded, so no operation overflows to infinity;
\* NaN and the infinities are not values here.
\* ------------------------------------------------------------------------

FZero(s) ==
    [s |-> s, m |-> <<>>, e |-> 0]

IsZero(x) ==
    x.m = <<>>

\* a significand r of MantBits bits, or of one more after rounding up
FNormal(s, r, e) ==
    IF LBitLen(r) > MantBits
    THEN [s |-> s, m |-> LShr(r, 1), e |-> e + 1]
    ELSE [s |-> s, m |-> r, e |-> e]

\* m cut to its top MantBits bits (kept, the k bits below dropped): up when
\* the dropped bits are more than half a unit, or half and kept is odd
FCut(s, m, e, k, kept) ==
    IF LBit(m, k) = 1
       /\ (kept[1] % 2 = 1 \/ LShl(LShr(m, k - 1), k - 1) # m)
    THEN FNormal(s, LAdd(kept, <<1>>), e + k)
    ELSE FNormal(s, kept, e + k)

\* the smallest positive float is 2^-TinyExp: below the normal range the
\* floats are the multiples of it (the subnormal numbers)
TinyExp == 1074

\* a value of n bits: rounded to MantBits bits, or, where that would be
\* finer than 2^-TinyExp, to a multiple r of 2^-TinyExp (k bits dropped)
FRoundLen(s, m, e, n) ==
    IF e + n - MantBits < 0 - TinyExp
    THEN LET k    == 0 - TinyExp - e
             kept == IF k > 0 THEN LShr(m, k) ELSE LShl(m, 0 - k)
             r    == IF /\ k > 0
                        /\ LBit(m, k) = 1
                        /\ \/ Limb(kept, 1) % 2 = 1
                           \/ LShl(LShr(m, k - 1), k - 1) # m
                     THEN LAdd(kept, <<1>>) ELSE kept
         IN  IF r = <<>> THEN FZero(s)
             ELSE [s |-> s, m |-> LShl(r, MantBits - LBitLen(r)),
                   e |-> 0 - TinyExp - (MantBits - LBitLen(r))]
    ELSE IF n <= MantBits
    THEN [s |-> s, m |-> LShl(m, MantBits - n), e |-> e - (MantBits - n)]
    ELSE FCut(s, m, e, n - MantBits, LShr(m, n - MantBits))

\* the float nearest to (-1)^s * m * 2^e, ties to even
FRound(s, m, e) ==
    IF m = <<>> THEN FZero(s) ELSE FRoundLen(s, m, e, LBitLen(m))

FRoundX(r) ==
    FRound(r.s, r.m, r.e)

FromInt(n) ==
    IF n < 0 THEN FRound(1, LFromNat(-n), 0) ELSE FRound(0, LFromNat(n), 0)

fneg(x) ==
    [x EXCEPT !.s = 1 - x.s]

fabs(x) ==
    [x EXCEPT !.s = 0]

\* the exact sum and product of two values, not rounded: [s, m, e] with a
\* significand of any length
XMinExp(x, y) ==
    IF x.e < y.e THEN x.e ELSE y.e

\* (-1)^sx * ax * 2^e + (-1)^sy * ay * 2^e
XAddAligned(sx, ax, sy, ay, e) ==
    IF sx = sy THEN [s |-> sx, m |-> LAdd(ax, ay), e |-> e]
    ELSE IF LCmp(ax, ay) = 0 THEN FZero(0)
    ELSE IF LCmp(ax, ay) > 0 THEN [s |-> sx, m |-> LSub(ax, ay), e |-> e]
    ELSE [s |-> sy, m |-> LSub(ay, ax), e |-> e]

xadd(x, y) ==
    IF IsZero(x) /\ IsZero(y) THEN FZero(IF x.s = 1 /\ y.s = 1 THEN 1 ELSE 0)
    ELSE IF IsZero(x) THEN y
    ELSE IF IsZero(y) THEN x
    ELSE XAddAligned(x.s, LShl(x.m, x.e - XMinExp(x, y)),
                     y.s, LShl(y.m, y.e - XMinExp(x, y)), XMinExp(x, y))

xmul(x, y) ==
    IF IsZero(x) \/ IsZero(y) THEN FZero((x.s + y.s) % 2)
    ELSE [s |-> (x.s + y.s) % 2, m |-> LMul(x.m, y.m), e |-> x.e + y.e]

\* -1, 0, 1 as x <, =, > y, for exact values
XSign(d) ==
    IF IsZero(d) THEN 0 ELSE IF d.s = 1 THEN -1 ELSE 1

xcmp(x, y) ==
    XSign(xadd(x, fneg(y)))

fadd(x, y) ==
    FRoundX(xadd(x, y))

fsub(x, y) ==
    fadd(x, fneg(y))

fmul(x, y) ==
    FRoundX(xmul(x, y))

\* x / y for y # 0 (Python raises ZeroDivisionError otherwise): the quotient
\* to MantBits + 3 bits or more, and one bit more that says whether the
\* division left a remainder
FQuotient(d) ==
    LAdd(LMulSmall(d[1], 2), IF d[2] = <<>> THEN <<>> ELSE <<1>>)

fdiv(x, y) ==
    IF IsZero(x) THEN FZero((x.s + y.s) % 2)
    ELSE FRound((x.s + y.s) % 2,
                FQuotient(LDivMod(LShl(x.m, MantBits + 3), y.m)),
                x.e - y.e - (MantBits + 3) - 1)

\* -1, 0, 1 as x <, ==, > y (0.0 == -0.0)
fcmp(x, y) ==
    LET mag == IF x.e # y.e THEN (IF x.e > y.e THEN 1 ELSE -1)
               ELSE LCmp(x.m, y.m)
    IN  IF IsZero(x) /\ IsZero(y) THEN 0
        ELSE IF IsZero(x) THEN (IF y.s = 1 THEN 1 ELSE -1)
        ELSE IF IsZero(y) THEN (IF x.s = 1 THEN -1 ELSE 1)
        ELSE IF x.s # y.s THEN (IF x.s = 1 THEN -1 ELSE 1)
        ELSE IF x.s = 0 THEN mag ELSE -mag

\* Python's max(a, b) and min(a, b): the first argument unless the second is
\* strictly greater (smaller)
fmax(a, b) ==
    IF fcmp(b, a) > 0 THEN b ELSE a

fmin(a, b) ==
    IF fcmp(b, a) < 0 THEN b ELSE a

\* int(x // 1) for x >= 0: the floor, a Python int
FloorInt(x) ==
    IF IsZero(x) THEN <<>>
    ELSE IF x.e >= 0 THEN LShl(x.m, x.e)
    ELSE LShr(x.m, -x.e)

\* the float a decimal literal num/den denotes (literals are correctly rounded)
Lit(num, den) ==
    fdiv(FromInt(num), FromInt(den))

\* the float constants of the program
Zero == FromInt(0)

One == FromInt(1)

Half == Lit(1, 2)

Tenth == Lit(1, 10)

Hundredth == Lit(1, 100)

Ten == FromInt(10)

Thousand == FromInt(1000)

DefaultVolatility == Lit(5, 100)

DefaultLiquidity == FromInt(100000)

DefaultFees == Lit(4, 10000)

\* float('-inf'): the initial best score of _route_order
NegInf ==
    [s |-> 1, m |-> <<>>, e |-> 1]

\* x > y where y may be float('-inf')
fgt(x, y) ==
    IF y = NegInf THEN x # NegInf ELSE fcmp(x, y) > 0

\* ------------------------------------------------------------------------
\* src/hedging/execution.py
\* ------------------------------------------------------------------------

\* class ExecutionStatus
PENDING == "pending"

SUBMITTED == "submitted"

PARTIALLY_FILLED == "partially_filled"

FILLED == "filled"

CANCELLED == "cancelled"

FAILED == "failed"

\* dict.get(key, default); a dict is a function on its keys, {} is <<>>
Get(d, k, default) ==
    IF k \in DOMAIN d THEN d[k] ELSE default

\* _aggregate_status with the FAILED and PARTIALLY_FILLED tests swapped: what
\* C2 rules out
aggregate_partial_first(execution_results) ==
    IF \A i \in 1..Len(execution_results) :
           execution_results[i].status = FILLED
    THEN FILLED
    ELSE IF \E i \in 1..Len(execution_results) :
                execution_results[i].status = PARTIALLY_FILLED
         THEN PARTIALLY_FILLED
    ELSE IF \E i \in 1..Len(execution_results) :
                execution_results[i].status = FAILED
         THEN FAILED
    ELSE PENDING

\* an _aggregate_status without its test for PARTIALLY_FILLED: what C33
\* rules out
aggregate_without_partial(execution_results) ==
    IF \A i \in 1..Len(execution_results) :
           execution_results[i].status = FILLED
    THEN FILLED
    ELSE IF \E i \in 1..Len(execution_results) :
                execution_results[i].status = FAILED
    THEN FAILED
    ELSE PENDING

\* ExecutionManager._aggregate_status
aggregate_status(execution_results) ==
    LET statuses == [i \in 1..Len(execution_results) |->
                        execution_results[i].status]
    IN  IF \A i \in 1..Len(statuses) : statuses[i] = FILLED THEN FILLED
        ELSE IF \E i \in 1..Len(statuses) : statuses[i] = FAILED THEN FAILED
        ELSE IF \E i \in 1..Len(statuses) : statuses[i] = PARTIALLY_FILLED
             THEN PARTIALLY_FILLED
        ELSE PENDING

\* n_tranches counted one too high before it is clamped: what C10 rules out
tranche_count_off_by_one(hedge_size, twap) ==
    IF twap
    THEN LToNat(LMin(LFromNat(5),
                     LMax(LFromNat(2),
                          LAdd(FloorInt(fabs(hedge_size)), <<1>>))))
    ELSE 2

\* n_tranches of _split_into_tranches when the hedge is split
tranche_count(hedge_size, twap) ==
    IF twap
    THEN LToNat(LMin(LFromNat(5),
                     LMax(LFromNat(2), FloorInt(fabs(hedge_size)))))
    ELSE 2

\* [tranche_size] * n_tranches
repeat(tranche_size, n_tranches) ==
    [i \in 1..n_tranches |-> tranche_size]

\* tranche_size cut to a whole number: what C9 rules out
truncated_tranches(hedge_size, n_tranches) ==
    repeat([FromInt(LToNat(FloorInt(fdiv(fabs(hedge_size),
                                         FromInt(n_tranches)))))
               EXCEPT !.s = hedge_size.s],
           n_tranches)

\* lines 137-138 of _split_into_tranches
equal_tranches(hedge_size, n_tranches) ==
    repeat(fdiv(hedge_size, FromInt(n_tranches)), n_tranches)

\* ExecutionManager._split_into_tranches
split_into_tranches(hedge_size, partial, twap) ==
    IF ~partial \/ fcmp(fabs(hedge_size), One) < 0
    THEN <<hedge_size>>
    ELSE equal_tranches(hedge_size, tranche_count(hedge_size, twap))

\* a hedge towards the target that does not look at the position held
hedge_to_target(current_delta, target_delta, volatility, liquidity, max_hedge, vol_factor) ==
    <<fmax(fneg(max_hedge), fmin(max_hedge, fmul(target_delta, vol_factor))),
      <<current_delta, target_delta, volatility, liquidity, max_hedge,
        vol_factor>>>>

\* a hedge size capped from above only
hedge_capped_above(current_delta, target_delta, volatility, liquidity, max_hedge, vol_factor) ==
    <<fmin(max_hedge, fmul(fsub(target_delta, current_delta), vol_factor)),
      <<current_delta, target_delta, volatility, liquidity, max_hedge,
        vol_factor>>>>

\* lines 107-109 of _calculate_optimal_hedge_size: <<hedge_size, rationale>>;
\* the rationale string is the tuple of the values it formats
clamped_hedge(current_delta, target_delta, volatility, liquidity, max_hedge, vol_factor) ==
    <<fmax(fneg(max_hedge),
           fmin(max_hedge,
                fmul(fsub(target_delta, current_delta), vol_factor))),
      <<current_delta, target_delta, volatility, liquidity, max_hedge,
        vol_factor>>>>

\* a volatility factor without its floor of one half
hedge_without_floor(current_delta, target_delta, volatility, liquidity) ==
    <<fmax(fneg(fmul(liquidity, Tenth)),
           fmin(fmul(liquidity, Tenth),
                fmul(fsub(target_delta, current_delta),
                     fsub(One, volatility)))),
      <<current_delta, target_delta, volatility, liquidity,
        fmul(liquidity, Tenth), fsub(One, volatility)>>>>

\* a volatility factor that grows with the volatility: what C37 rules out
hedge_more_in_vol(current_delta, target_delta, volatility, liquidity) ==
    clamped_hedge(current_delta, target_delta, volatility, liquidity,
                  fmul(liquidity, Tenth),
                  fmax(Half, fadd(One, volatility)))

\* lines 103-106
hedge_from(current_delta, target_delta, volatility, liquidity) ==
    clamped_hedge(current_delta, target_delta, volatility, liquidity,
                  fmul(liquidity, Tenth),
                  fmax(Half, fsub(One, volatility)))

\* ExecutionManager._calculate_optimal_hedge_size, once the position and
\* the market data are there
optimal_hedge_size(position, market_data, target_delta) ==
    hedge_from(Get(position, "delta", Zero), target_delta,
               Get(market_data, "volatility", DefaultVolatility),
               Get(market_data, "order_book_liquidity", DefaultLiquidity))

\* the order parameters _route_order reads from one order book
venue_params(order_book, hedge_size) ==
    [price   |-> Get(order_book,
                     IF fcmp(hedge_size, Zero) > 0
                     THEN "best_ask" ELSE "best_bid", Zero),
     depth   |-> Get(order_book, "depth", Zero),
     fees    |-> Get(order_book, "fees", DefaultFees),
     latency |-> Get(order_book, "latency", Tenth)]

\* a score that rewards a high price: what C32 rules out
venue_score_dear(q) ==
    fadd(fsub(fsub(fabs(q.price), fmul(q.fees, Thousand)),
              fmul(q.latency, Ten)),
         fmul(q.depth, Hundredth))

\* the score of _route_order
venue_score(q) ==
    fadd(fsub(fsub(fneg(fabs(q.price)), fmul(q.fees, Thousand)),
              fmul(q.latency, Ten)),
         fmul(q.depth, Hundredth))

\* a fill of the requested size or more taken for FILLED
tranche_result_at_least(tranche_id, tranche, order_result, ts) ==
    [tranche_id |-> tranche_id,
     status     |-> IF fcmp(Get(order_result, "filled", Zero),
                            fabs(tranche)) >= 0
                    THEN FILLED ELSE PARTIALLY_FILLED,
     filled     |-> Get(order_result, "filled", Zero),
     cost       |-> Get(order_result, "cost", Zero),
     slippage   |-> Get(order_result, "slippage", Zero),
     fees       |-> Get(order_result, "fees", Zero),
     timestamp  |-> <<"iso", ts>>]

\* the result dict of _execute_tranche when place_order returned
tranche_result(tranche_id, tranche, order_result, ts) ==
    [tranche_id |-> tranche_id,
     status     |-> IF fcmp(Get(order_result, "filled", Zero),
                            fabs(tranche)) = 0
                    THEN FILLED ELSE PARTIALLY_FILLED,
     filled     |-> Get(order_result, "filled", Zero),
     cost       |-> Get(order_result, "cost", Zero),
     slippage   |-> Get(order_result, "slippage", Zero),
     fees       |-> Get(order_result, "fees", Zero),
     timestamp  |-> <<"iso", ts>>]

\* an except clause that leaves the tranche PENDING: what C3 rules out
tranche_failure_pending(tranche_id, error, ts) ==
    [tranche_id |-> tranche_id,
     status     |-> PENDING,
     error      |-> error,
     timestamp  |-> <<"iso", ts>>]

\* the result dict of _execute_tranche when the try block raised
tranche_failure(tranche_id, error, ts) ==
    [tranche_id |-> tranche_id,
     status     |-> FAILED,
     error      |-> error,
     timestamp  |-> <<"iso", ts>>]

\* sum(r.get(key, 0) for r in execution_results)
RECURSIVE sum_of(_, _, _)
sum_of(execution_results, key, n) ==
    IF n = 0 THEN Zero
    ELSE fadd(sum_of(execution_results, key, n - 1),
              Get(execution_results[n], key, Zero))

\* a benefit that keeps the signs of the fill and of the target: what C27
\* rules out
cost_benefit_signed(total_cost, total_fees, total_slippage, filled, target_delta) ==
    [total_cost     |-> total_cost,
     total_fees     |-> total_fees,
     total_slippage |-> total_slippage,
     filled         |-> filled,
     target_delta   |-> target_delta,
     benefit        |-> IF ~IsZero(target_delta)
                        THEN fdiv(filled, target_delta)
                        ELSE Zero,
     cost_per_unit  |-> IF ~IsZero(filled)
                        THEN fdiv(total_cost, filled) ELSE Zero]

\* lines 193-202 of _cost_benefit_analysis
cost_benefit_of(total_cost, total_fees, total_slippage, filled, target_delta) ==
    [total_cost     |-> total_cost,
     total_fees     |-> total_fees,
     total_slippage |-> total_slippage,
     filled         |-> filled,
     target_delta   |-> target_delta,
     benefit        |-> IF ~IsZero(target_delta)
                        THEN fdiv(fabs(filled), fabs(target_delta))
                        ELSE Zero,
     cost_per_unit  |-> IF ~IsZero(filled)
                        THEN fdiv(total_cost, filled) ELSE Zero]

\* ExecutionManager._cost_benefit_analysis
cost_benefit_analysis(execution_results, hedge_size, target_delta) ==
    cost_benefit_of(
        sum_of(execution_results, "cost", Len(execution_results)),
        sum_of(execution_results, "fees", Len(execution_results)),
        sum_of(execution_results, "slippage", Len(execution_results)),
        sum_of(execution_results, "filled", Len(execution_results)),
        target_delta)

\* ------------------------------------------------------------------------
\* State: one ExecutionManager, the coroutines running execute_hedge on it,
\* and the collaborators it calls.
\* ------------------------------------------------------------------------

VARIABLES
    audit_trail,        \* ExecutionAuditTrail.records
    active_executions,  \* ExecutionManager.active_executions
    task,               \* per coroutine: where it is suspended, its locals
    next_id,            \* the uuid4 values handed out so far
    now,                \* datetime.now()
    inflight,           \* place_order calls the exchange has not finished
    orders,             \* every place_order call the exchange received
    raised,             \* the callers whose place_order call raised
    snapshots,          \* every order book get_order_book returned
    sleeps,             \* every asyncio.sleep call, by the tranche it is for
    arg,                \* input of the pure function under check, if any
    ret,                \* its result
    running,            \* RiskMonitor.running
    monitor             \* per call of RiskMonitor.start: where it is
                        \* suspended, what its last pass did

vars ==
    <<audit_trail, active_executions, task, next_id, now, inflight, orders,
      raised, snapshots, sleeps, arg, ret, running, monitor>>

\* what execute_hedge and the functions under check work on
manager_vars ==
    <<audit_trail, active_executions, task, next_id, now, inflight, orders,
      raised, snapshots, sleeps, arg, ret>>

\* the RiskMonitor, which no step of the ExecutionManager touches
monitor_vars ==
    <<running, monitor>>

\* the calls of RiskMonitor.start
MaxStarts == 2

Starts == 1..MaxStarts

\* a call of RiskMonitor.start that has not begun: no pass run, no sleep
\* asked for, alert_callback not called, stop() not called on it
IdleLoop ==
    [pc |-> "idle", passes |-> 0, delay |-> 0, alerts |-> <<>>,
     stopped |-> FALSE]

\* RiskMonitor.__init__, line 15
InitMonitor ==
    /\ running = FALSE
    /\ monitor = [i \in Starts |-> IdleLoop]

\* the coroutines that may run execute_hedge at the same time
MaxCalls == 2

Tasks == 1..MaxCalls

\* the locals of a coroutine that has not been started
IdleTask ==
    [pc |-> "idle", symbol |-> "", target_delta |-> FZero(0),
     max_slippage |-> FZero(0), partial |-> FALSE, twap |-> FALSE,
     execution_id |-> <<>>, position |-> <<>>, hedge_size |-> FZero(0),
     rationale |-> <<>>, venues |-> <<>>, vi |-> 0, best_venue |-> "None",
     best_score |-> NegInf, best_params |-> <<>>, venue |-> "None",
     order_params |-> <<>>, routing_reason |-> <<>>, tranches |-> <<>>,
     i |-> 0, execution_results |-> <<>>, result |-> <<>>, error |-> ""]

\* ExecutionManager.__init__ and ExecutionAuditTrail.__init__
InitManager ==
    /\ audit_trail = <<>>
    /\ active_executions = <<>>
    /\ task = [t \in Tasks |-> IdleTask]
    /\ next_id = 0
    /\ now = 0
    /\ inflight = {}
    /\ orders = <<>>
    /\ raised = {}
    /\ snapshots = <<>>
    /\ sleeps = <<>>
    /\ InitMonitor

Init ==
    /\ InitManager
    /\ arg = <<>>
    /\ ret = <<>>

\* The state a step works on: the stepping coroutine's locals l and the
\* shared objects it may write before it suspends again.
World(t) ==
    [l |-> task[t], audit_trail |-> audit_trail,
     active_executions |-> active_executions, inflight |-> inflight,
     orders |-> orders, snapshots |-> snapshots, sleeps |-> sleeps]

Commit(t, w) ==
    /\ task' = [task EXCEPT ![t] = w.l]
    /\ audit_trail' = w.audit_trail
    /\ active_executions' = w.active_executions
    /\ inflight' = w.inflight
    /\ orders' = w.orders
    /\ snapshots' = w.snapshots
    /\ sleeps' = w.sleeps

\* a trail that keeps the latest entry of an id in place of the one before
LogLatest(w, execution_id, action, details) ==
    [w EXCEPT !.audit_trail =
        IF @ # <<>> /\ @[Len(@)].execution_id = execution_id
        THEN [@ EXCEPT ![Len(@)] =
                 [execution_id |-> execution_id, timestamp |-> now,
                  action |-> action, details |-> details]]
        ELSE Append(@, [execution_id |-> execution_id, timestamp |-> now,
                        action |-> action, details |-> details])]

\* a trail with the newest entry first
LogFirst(w, execution_id, action, details) ==
    [w EXCEPT !.audit_trail =
        <<[execution_id |-> execution_id, timestamp |-> now,
           action |-> action, details |-> details]>> \o @]

\* ExecutionAuditTrail.log
Log(w, execution_id, action, details) ==
    [w EXCEPT !.audit_trail =
        Append(@, [execution_id |-> execution_id, timestamp |-> now,
                   action |-> action, details |-> details])]

\* the argument None: no execution id (uuid4 values are <<1>>, <<2>>, ..)
None == <<0>>

\* ExecutionAuditTrail.get_records: the test `if execution_id:` fails for
\* None and for the empty string <<>>
get_records(records, execution_id) ==
    IF execution_id # None /\ execution_id # <<>>
    THEN SelectSeq(records, LAMBDA r : r.execution_id = execution_id)
    ELSE records

\* f"{execution_id}_tranche_{i+1}", i counted from 1 here
TrancheId(execution_id, i) ==
    Append(execution_id, i)

\* a registry that holds the summary of the latest call only
StoreLatest(w, summary) ==
    Log([w EXCEPT !.active_executions =
                      [k \in {summary.execution_id} |-> summary],
                  !.l.pc = "done",
                  !.l.result = summary],
        summary.execution_id, "execution_complete", [summary |-> summary])

\* a summary stored and returned without the execution_complete entry: what
\* C38 rules out
StoreUnlogged(w, summary) ==
    [w EXCEPT !.active_executions =
                  [k \in DOMAIN @ \cup {summary.execution_id} |->
                      IF k = summary.execution_id THEN summary ELSE @[k]],
              !.l.pc = "done",
              !.l.result = summary]

\* execute_hedge, lines 91-93: the summary is stored and returned
Store(w, summary) ==
    Log([w EXCEPT !.active_executions =
                      [k \in DOMAIN @ \cup {summary.execution_id} |->
                          IF k = summary.execution_id THEN summary ELSE @[k]],
                  !.l.pc = "done",
                  !.l.result = summary],
        summary.execution_id, "execution_complete", [summary |-> summary])

\* lines 79-90: the summary
Summarize(w, status, cost_benefit) ==
    Store(w, [execution_id      |-> w.l.execution_id,
              symbol            |-> w.l.symbol,
              target_delta      |-> w.l.target_delta,
              hedge_size        |-> w.l.hedge_size,
              venue             |-> w.l.venue,
              status            |-> status,
              execution_results |-> w.l.execution_results,
              cost_benefit      |-> cost_benefit,
              audit_trail       |-> get_records(w.audit_trail,
                                                w.l.execution_id)])

\* lines 75-77: the cost-benefit analysis
Analyze(w, status, cost_benefit) ==
    Summarize(Log(w, w.l.execution_id, "cost_benefit", cost_benefit),
              status, cost_benefit)

\* the cost-benefit analysis logged ahead of the status
ConfirmAfterAnalysis(w, status) ==
    Summarize(Log(Log(w, w.l.execution_id, "cost_benefit",
                      cost_benefit_analysis(w.l.execution_results,
                                            w.l.hedge_size,
                                            w.l.target_delta)),
                  w.l.execution_id, "execution_status", [status |-> status]),
              status,
              cost_benefit_analysis(w.l.execution_results, w.l.hedge_size,
                                    w.l.target_delta))

\* lines 71-73: the aggregate status
Confirm(w, status) ==
    Analyze(Log(w, w.l.execution_id, "execution_status", [status |-> status]),
            status,
            cost_benefit_analysis(w.l.execution_results, w.l.hedge_size,
                                  w.l.target_delta))

\* the status of the last tranche taken for the status of the execution:
\* what C8 rules out
FinishOnLast(w) ==
    Confirm(w, w.l.execution_results[Len(w.l.execution_results)].status)

\* execute_hedge, steps 5 to 7: after the last tranche
Finish(w) ==
    Confirm(w, aggregate_status(w.l.execution_results))

RECURSIVE LoopHead(_)

\* a tranche loop that stops at the first FAILED result: what C1 rules out
RecordOrAbort(w, result) ==
    IF result.status = FAILED
    THEN Finish(Log([w EXCEPT !.l.execution_results = Append(@, result)],
                    TrancheId(w.l.execution_id, w.l.i),
                    "tranche_execution_result", result))
    ELSE LoopHead(Log([w EXCEPT !.l.execution_results = Append(@, result),
                                !.l.i = @ + 1],
                      TrancheId(w.l.execution_id, w.l.i),
                      "tranche_execution_result", result))

\* a tranche whose order failed submitted a second time: what C17 rules out
RecordOrRetry(w, result) ==
    IF /\ result.status = FAILED
       /\ Len(SelectSeq(w.orders,
                        LAMBDA c : c.caller
                                       = TrancheId(w.l.execution_id, w.l.i)))
              = 1
    THEN LoopHead(w)
    ELSE LoopHead(Log([w EXCEPT !.l.execution_results = Append(@, result),
                                !.l.i = @ + 1],
                      TrancheId(w.l.execution_id, w.l.i),
                      "tranche_execution_result", result))

\* a list of results that keeps the latest result only: what C35 rules out
RecordLatest(w, result) ==
    LoopHead(Log([w EXCEPT !.l.execution_results = <<result>>,
                           !.l.i = @ + 1],
                 TrancheId(w.l.execution_id, w.l.i),
                 "tranche_execution_result", result))

\* execute_hedge, lines 68-69: the result of tranche l.i is there
Record(w, result) ==
    LoopHead(Log([w EXCEPT !.l.execution_results = Append(@, result),
                           !.l.i = @ + 1],
                 TrancheId(w.l.execution_id, w.l.i),
                 "tranche_execution_result", result))

\* place_order started but not awaited, the loop going on to the next
\* tranche: what C5 rules out
PlaceDetached(w, call) ==
    LoopHead([w EXCEPT !.l.i = @ + 1,
                       !.inflight = @ \cup {call},
                       !.orders = Append(@, call)])

\* a submission that writes a start entry of its own: what C29 rules out
PlaceAnnounced(w, call) ==
    [Log(w, call.caller, "tranche_execution_start",
         [size |-> w.l.tranches[w.l.i], venue |-> w.l.venue])
        EXCEPT !.l.pc = "place_order",
               !.inflight = @ \cup {call},
               !.orders = Append(@, call)]

\* the place_order call is handed to the exchange
Place(w, call) ==
    [w EXCEPT !.l.pc = "place_order",
              !.inflight = @ \cup {call},
              !.orders = Append(@, call)]

\* every order a buy, whatever the sign of the tranche: what C34 rules out
SubmitBuy(w) ==
    IF "price" \notin DOMAIN w.l.order_params
    THEN Record(w, tranche_failure(TrancheId(w.l.execution_id, w.l.i),
                                   "'price'", now))
    ELSE Place(w, [caller |-> TrancheId(w.l.execution_id, w.l.i),
                   symbol |-> w.l.symbol,
                   venue |-> w.l.venue,
                   side |-> "buy",
                   quantity |-> fabs(w.l.tranches[w.l.i]),
                   price |-> w.l.order_params["price"],
                   max_slippage |-> w.l.max_slippage])

\* _execute_tranche from its try on: the arguments of place_order are
\* evaluated (order_params['price'] raises KeyError when routing found no
\* venue, which the except clause turns into a FAILED result) and the call
\* is made
Submit(w) ==
    IF "price" \notin DOMAIN w.l.order_params
    THEN Record(w, tranche_failure(TrancheId(w.l.execution_id, w.l.i),
                                   "'price'", now))
    ELSE Place(w, [caller |-> TrancheId(w.l.execution_id, w.l.i),
                   symbol |-> w.l.symbol,
                   venue |-> w.l.venue,
                   side |-> IF fcmp(w.l.tranches[w.l.i], Zero) > 0
                            THEN "buy" ELSE "sell",
                   quantity |-> fabs(w.l.tranches[w.l.i]),
                   price |-> w.l.order_params["price"],
                   max_slippage |-> w.l.max_slippage])

\* a TWAP delay between the tranches only, none before the first
EnterBetween(w) ==
    IF w.l.twap /\ w.l.i > 1
    THEN [w EXCEPT !.l.pc = "sleep",
                   !.sleeps = Append(@, TrancheId(w.l.execution_id, w.l.i))]
    ELSE Submit(w)

\* _execute_tranche, lines 143-144: the TWAP delay, or straight to the order
Enter(w) ==
    IF w.l.twap
    THEN [w EXCEPT !.l.pc = "sleep",
                   !.sleeps = Append(@, TrancheId(w.l.execution_id, w.l.i))]
    ELSE Submit(w)

\* execute_hedge, the head of the tranche loop (lines 64-67): the next
\* tranche, or the loop is over
LoopHead(w) ==
    IF w.l.i > Len(w.l.tranches) THEN Finish(w)
    ELSE Enter(Log(w, TrancheId(w.l.execution_id, w.l.i),
                   "tranche_execution_start",
                   [size |-> w.l.tranches[w.l.i], venue |-> w.l.venue]))

\* execute_hedge, lines 59-63: the tranches are created
Schedule(w, tranches) ==
    LoopHead(Log([w EXCEPT !.l.tranches = tranches, !.l.i = 1],
                 w.l.execution_id, "tranches_created",
                 [tranches |-> tranches]))

\* _route_order after its loop (lines 129-130) and execute_hedge lines 55-56
Routed(w, best_venue, best_params, reason) ==
    Schedule(Log([w EXCEPT !.l.venue = best_venue,
                           !.l.order_params = best_params,
                           !.l.routing_reason = reason,
                           !.l.vi = 0,
                           !.l.best_venue = "None",
                           !.l.best_score = NegInf,
                           !.l.best_params = <<>>],
                     w.l.execution_id, "order_routed",
                     [venue |-> best_venue, order_params |-> best_params,
                      reason |-> reason]),
             split_into_tranches(w.l.hedge_size, w.l.partial, w.l.twap))

RouteDone(w) ==
    Routed(w, w.l.best_venue, w.l.best_params,
           <<w.l.best_venue, w.l.best_score, w.l.best_params>>)

\* ------------------------------------------------------------------------
\* Actions: one per stretch of execute_hedge between two awaits.
\* ------------------------------------------------------------------------

\* an execution id that is not fresh: every call gets the first one
StartWithStaleId(t, symbol, target_delta, max_slippage, partial, twap) ==
    /\ task[t].pc = "idle"
    /\ \A u \in Tasks : u < t => task[u].pc # "idle"
    /\ next_id' = next_id + 1
    /\ Commit(t, Log([World(t) EXCEPT
                          !.l = [IdleTask EXCEPT
                                    !.pc = "get_position",
                                    !.symbol = symbol,
                                    !.target_delta = target_delta,
                                    !.max_slippage = max_slippage,
                                    !.partial = partial,
                                    !.twap = twap,
                                    !.execution_id = <<1>>]],
                     <<1>>, "start_execution",
                     [symbol |-> symbol, target_delta |-> target_delta]))
    /\ UNCHANGED <<monitor_vars, now, raised, arg, ret>>

\* execute_hedge is called: lines 47-48, up to the await of get_position
Start(t, symbol, target_delta, max_slippage, partial, twap) ==
    /\ task[t].pc = "idle"
    /\ \A u \in Tasks : u < t => task[u].pc # "idle"
    /\ next_id' = next_id + 1
    /\ Commit(t, Log([World(t) EXCEPT
                          !.l = [IdleTask EXCEPT
                                    !.pc = "get_position",
                                    !.symbol = symbol,
                                    !.target_delta = target_delta,
                                    !.max_slippage = max_slippage,
                                    !.partial = partial,
                                    !.twap = twap,
                                    !.execution_id = <<next_id + 1>>]],
                     <<next_id + 1>>, "start_execution",
                     [symbol |-> symbol, target_delta |-> target_delta]))
    /\ UNCHANGED <<monitor_vars, now, raised, arg, ret>>

\* get_position returns (line 98)
GetPositionReturn(t, position) ==
    /\ task[t].pc = "get_position"
    /\ task' = [task EXCEPT ![t].position = position,
                            ![t].pc = "get_market_data"]
    /\ UNCHANGED <<monitor_vars, audit_trail, active_executions, next_id, now,
                   inflight, orders, raised, snapshots, sleeps, arg, ret>>

\* an execution entered in the registry as soon as its hedge size is known:
\* what C36 rules out
HedgeSizedRegistered(w, hr) ==
    Log([w EXCEPT !.l.hedge_size = hr[1],
                  !.l.rationale = hr[2],
                  !.l.position = <<>>,
                  !.l.pc = "get_available_venues",
                  !.active_executions =
                      [k \in DOMAIN @ \cup {w.l.execution_id} |->
                          IF k = w.l.execution_id
                          THEN [execution_id |-> k, hedge_size |-> hr[1]]
                          ELSE @[k]]],
        w.l.execution_id, "hedge_size_calculated",
        [hedge_size |-> hr[1], rationale |-> hr[2]])

\* get_market_data returns: lines 100-109, 52, up to the await of
\* get_available_venues
HedgeSized(w, hr) ==
    Log([w EXCEPT !.l.hedge_size = hr[1],
                  !.l.rationale = hr[2],
                  !.l.position = <<>>,
                  !.l.pc = "get_available_venues"],
        w.l.execution_id, "hedge_size_calculated",
        [hedge_size |-> hr[1], rationale |-> hr[2]])

GetMarketDataReturn(t, market_data) ==
    /\ task[t].pc = "get_market_data"
    /\ Commit(t, HedgeSized(World(t),
                            optimal_hedge_size(task[t].position, market_data,
                                               task[t].target_delta)))
    /\ UNCHANGED <<monitor_vars, next_id, now, raised, arg, ret>>

\* get_available_venues returns: lines 113-118
GetVenuesReturn(t, venues) ==
    /\ task[t].pc = "get_available_venues"
    /\ Commit(t, IF venues = <<>>
                  THEN RouteDone(World(t))
                  ELSE [World(t) EXCEPT !.l.venues = venues, !.l.vi = 1,
                                        !.l.pc = "get_order_book"])
    /\ UNCHANGED <<monitor_vars, next_id, now, raised, arg, ret>>

\* a venue that takes the lead with a score equal to the best so far
ScoredOnTie(w, q, score) ==
    IF w.l.best_score = NegInf \/ fcmp(score, w.l.best_score) >= 0
    THEN [w EXCEPT !.l.best_score = score,
                   !.l.best_venue = w.l.venues[w.l.vi],
                   !.l.best_params = q]
    ELSE w

\* get_order_book returns for venue l.vi: lines 119-128
\* lines 124-128: the venue of this order book is the best so far, or not
Scored(w, q, score) ==
    IF fgt(score, w.l.best_score)
    THEN [w EXCEPT !.l.best_score = score,
                   !.l.best_venue = w.l.venues[w.l.vi],
                   !.l.best_params = q]
    ELSE w

ScoreVenue(w, q) ==
    Scored(w, q, venue_score(q))

\* line 118: the next venue, or the loop is over
NextVenue(w) ==
    IF w.l.vi < Len(w.l.venues)
    THEN [w EXCEPT !.l.vi = @ + 1]
    ELSE RouteDone(w)

\* line 120: the exchange has answered with order_book
Answered(w, order_book) ==
    [w EXCEPT !.snapshots =
        Append(@, [caller |-> w.l.execution_id, venue |-> w.l.venues[w.l.vi],
                   order_book |-> order_book])]

GetOrderBookReturn(t, order_book) ==
    /\ task[t].pc = "get_order_book"
    /\ Commit(t, NextVenue(ScoreVenue(Answered(World(t), order_book),
                                      venue_params(order_book,
                                                   task[t].hedge_size))))
    /\ UNCHANGED <<monitor_vars, next_id, now, raised, arg, ret>>

\* a partial summary stored on the way out of a failing request
RequestRaiseStored(t, error) ==
    /\ task[t].pc \in {"get_position", "get_market_data",
                       "get_available_venues", "get_order_book"}
    /\ Commit(t, [World(t) EXCEPT
                      !.l = [IdleTask EXCEPT
                                !.pc = "raised",
                                !.execution_id = task[t].execution_id,
                                !.error = error],
                      !.active_executions =
                          [k \in DOMAIN @ \cup {task[t].execution_id} |->
                              IF k = task[t].execution_id
                              THEN [execution_id |-> k, status |-> FAILED]
                              ELSE @[k]]])
    /\ UNCHANGED <<monitor_vars, next_id, now, raised, arg, ret>>

\* get_position, get_market_data, get_available_venues or get_order_book
\* raises: nothing in execute_hedge catches it
RequestRaise(t, error) ==
    /\ task[t].pc \in {"get_position", "get_market_data",
                       "get_available_venues", "get_order_book"}
    /\ task' = [task EXCEPT ![t] =
                   [IdleTask EXCEPT !.pc = "raised",
                                    !.execution_id = task[t].execution_id,
                                    !.error = error]]
    /\ UNCHANGED <<monitor_vars, audit_trail, active_executions, next_id, now,
                   inflight, orders, raised, snapshots, sleeps, arg, ret>>

\* asyncio.sleep(1) of _execute_tranche is over (line 144)
SleepReturn(t) ==
    /\ task[t].pc = "sleep"
    /\ Commit(t, Submit(World(t)))
    /\ UNCHANGED <<monitor_vars, next_id, now, raised, arg, ret>>

\* the place_order call the coroutine awaits
AwaitedCall(t) ==
    CHOOSE c \in inflight :
        c.caller = TrancheId(task[t].execution_id, task[t].i)

\* place_order returns: lines 155-167, 68-69 and on to the next await
PlaceOrderReturn(t, order_result) ==
    /\ task[t].pc = "place_order"
    /\ Commit(t, Record([World(t) EXCEPT !.inflight = @ \ {AwaitedCall(t)}],
                        tranche_result(
                            TrancheId(task[t].execution_id, task[t].i),
                            task[t].tranches[task[t].i], order_result, now)))
    /\ UNCHANGED <<monitor_vars, next_id, now, raised, arg, ret>>

\* place_order raises: lines 168-175, 68-69 and on to the next await
PlaceOrderRaise(t, error) ==
    /\ task[t].pc = "place_order"
    /\ Commit(t, Record([World(t) EXCEPT !.inflight = @ \ {AwaitedCall(t)}],
                        tranche_failure(
                            TrancheId(task[t].execution_id, task[t].i),
                            error, now)))
    /\ raised' = raised \cup {AwaitedCall(t).caller}
    /\ UNCHANGED <<monitor_vars, next_id, now, arg, ret>>

\* ------------------------------------------------------------------------
\* The callers and the collaborators: what execute_hedge is called with and
\* what the risk manager and the exchange answer.
\* ------------------------------------------------------------------------

Symbols == {"BTC/USDT"}

TargetDeltas == {FromInt(1), FromInt(3), FromInt(-6)}

MaxSlippages == {Lit(2, 1000)}

\* get_position: the fixture of src/tests/conftest.py (delta 0) and that of
\* test_execute_hedge_zero_delta (delta 1)
Positions ==
    {[delta |-> FromInt(d), quantity |-> FromInt(1),
      entry_price |-> FromInt(10000)] : d \in {0, 1}}

\* get_market_data: the fixture, a thin and volatile book, an empty book
MarketData ==
    {[last_price |-> FromInt(10000), volatility |-> Lit(5, 100),
      order_book_liquidity |-> FromInt(100000)],
     [last_price |-> FromInt(10000), volatility |-> Lit(6, 10),
      order_book_liquidity |-> FromInt(30)],
     [last_price |-> FromInt(10000), volatility |-> Lit(5, 100),
      order_book_liquidity |-> FromInt(0)]}

VenueLists == {<<>>, <<"okx">>, <<"okx", "bybit">>}

\* get_order_book: the fixture, and a book one unit cheaper on both sides
OrderBooks ==
    {[best_ask |-> FromInt(10001 - d), best_bid |-> FromInt(9999 - d),
      depth |-> FromInt(100000), fees |-> Lit(4, 10000),
      latency |-> Lit(1, 10)] : d \in {0, 1}}

\* what place_order returns for a quantity: a complete fill, the fixture's
\* answer (a fill of 1), or no fill reported
OrderResults(quantity) ==
    {[filled |-> quantity, cost |-> FromInt(10000),
      slippage |-> FromInt(1), fees |-> FromInt(4)],
     [filled |-> FromInt(1), cost |-> FromInt(10000),
      slippage |-> FromInt(1), fees |-> FromInt(4)],
     <<>>}

\* str(e) of what place_order raises
OrderErrors == {"Order failed"}

RequestErrors == {"Request failed"}

StartCall(t) ==
    \E symbol \in Symbols, target_delta \in TargetDeltas,
       max_slippage \in MaxSlippages, partial \in BOOLEAN, twap \in BOOLEAN :
        Start(t, symbol, target_delta, max_slippage, partial, twap)

\* what a started call does next, whatever the collaborators answer
Step(t) ==
    \/ \E position \in Positions : GetPositionReturn(t, position)
    \/ \E market_data \in MarketData : GetMarketDataReturn(t, market_data)
    \/ \E venues \in VenueLists : GetVenuesReturn(t, venues)
    \/ \E order_book \in OrderBooks : GetOrderBookReturn(t, order_book)
    \/ \E error \in RequestErrors : RequestRaise(t, error)
    \/ SleepReturn(t)
    \/ /\ task[t].pc = "place_order"
       /\ \E order_result \in OrderResults(AwaitedCall(t).quantity) :
              PlaceOrderReturn(t, order_result)
    \/ \E error \in OrderErrors : PlaceOrderRaise(t, error)

\* One call of execute_hedge on a fresh ExecutionManager, with every input
\* and every answer of the collaborators above.
NoCallYet ==
    \A t \in Tasks : task[t].pc = "idle"

Next ==
    \/ \E t \in Tasks : NoCallYet /\ StartCall(t)
    \/ \E t \in Tasks : Step(t)

Spec ==
    Init /\ [][Next]_vars

\* One call whose collaborators, asyncio.sleep included, all answer in the
\* end: a call that waits for an answer gets one. Orders are filled
\* completely or raise.
FairStep ==
    \/ \E position \in Positions : GetPositionReturn(1, position)
    \/ \E market_data \in MarketData : GetMarketDataReturn(1, market_data)
    \/ \E venues \in VenueLists : GetVenuesReturn(1, venues)
    \/ GetOrderBookReturn(1, [best_ask |-> FromInt(10001),
                              best_bid |-> FromInt(9999),
                              depth |-> FromInt(100000),
                              fees |-> Lit(4, 10000),
                              latency |-> Lit(1, 10)])
    \/ \E error \in RequestErrors : RequestRaise(1, error)
    \/ SleepReturn(1)
    \/ /\ task[1].pc = "place_order"
       /\ PlaceOrderReturn(1, [filled |-> AwaitedCall(1).quantity,
                               cost |-> FromInt(10000),
                               slippage |-> FromInt(1),
                               fees |-> FromInt(4)])
    \/ \E error \in OrderErrors : PlaceOrderRaise(1, error)

FairNext ==
    \/ \E target_delta \in TargetDeltas, twap \in BOOLEAN :
           Start(1, "BTC/USDT", target_delta, Lit(2, 1000), TRUE, twap)
    \/ FairStep

\* the call is suspended at an await
Awaiting ==
    task[1].pc \in {"get_position", "get_market_data", "get_available_venues",
                    "get_order_book", "place_order", "sleep"}

\* WF_vars(FairStep), with ENABLED <<FairStep>>_vars written as the state
\* predicate it equals: a step of the call is possible exactly while the
\* call is suspended at an await.
FairSpec ==
    /\ Init /\ [][FairNext]_vars
    /\ []<>(~Awaiting) \/ []<><<FairStep>>_vars

\* ------------------------------------------------------------------------
\* Several calls of execute_hedge on one ExecutionManager, each suspended
\* at its awaits while the others run, and the audit trail being read in
\* between. The collaborators answer as the fixtures do, or raise.
\* ------------------------------------------------------------------------

\* ExecutionManager.get_audit_trail(execution_id) returns
GetAuditTrail(execution_id) ==
    /\ arg' = execution_id
    /\ ret' = <<get_records(audit_trail, execution_id)>>
    /\ UNCHANGED <<monitor_vars, audit_trail, active_executions, task, next_id,
                   now, inflight, orders, raised, snapshots, sleeps>>

SharedStep(t) ==
    \/ \E position \in {p \in Positions : p.delta = Zero} :
           GetPositionReturn(t, position)
    \/ \E market_data \in {d \in MarketData :
                              d.order_book_liquidity = DefaultLiquidity} :
           GetMarketDataReturn(t, market_data)
    \/ GetVenuesReturn(t, <<"okx">>)
    \/ \E order_book \in {b \in OrderBooks : b.best_ask = FromInt(10001)} :
           GetOrderBookReturn(t, order_book)
    \/ \E error \in RequestErrors :
           task[t].pc = "get_order_book" /\ RequestRaise(t, error)
    \/ SleepReturn(t)
    \/ task[t].pc = "place_order"
           /\ PlaceOrderReturn(t, [filled |-> AwaitedCall(t).quantity,
                                   cost |-> FromInt(10000),
                                   slippage |-> FromInt(1),
                                   fees |-> FromInt(4)])
    \/ \E error \in OrderErrors : PlaceOrderRaise(t, error)

\* the trail is read with the ids of the first execution and of its first
\* tranche
SharedNext ==
    \/ \E t \in Tasks, twap \in BOOLEAN :
           Start(t, "BTC/USDT", One, Lit(2, 1000), TRUE, twap)
    \/ \E t \in Tasks : SharedStep(t)
    \/ \E execution_id \in {<<1>>, <<1, 1>>} : GetAuditTrail(execution_id)

SharedSpec ==
    Init /\ [][SharedNext]_vars

\* The same calls, all with the TWAP delay, while the clock datetime.now()
\* reads goes on from 0 to MaxTime; it never goes back.
MaxTime == 2

\* time passes
Tick ==
    /\ now < MaxTime
    /\ now' = now + 1
    /\ UNCHANGED <<monitor_vars, audit_trail, active_executions, task, next_id,
                   inflight, orders, raised, snapshots, sleeps, arg, ret>>

TimedNext ==
    \/ \E t \in Tasks : Start(t, "BTC/USDT", One, Lit(2, 1000), TRUE, TRUE)
    \/ \E t \in Tasks : SharedStep(t)
    \/ Tick

TimedSpec ==
    Init /\ [][TimedNext]_vars

\* One call of execute_hedge with an empty symbol on a fresh manager, the
\* collaborators answering as the fixtures do, or raising.
EmptySymbolNext ==
    \/ \E t \in Tasks, target_delta \in TargetDeltas, partial \in BOOLEAN,
          twap \in BOOLEAN :
           NoCallYet /\ Start(t, "", target_delta, Lit(2, 1000), partial, twap)
    \/ \E t \in Tasks : SharedStep(t)

EmptySymbolSpec ==
    Init /\ [][EmptySymbolNext]_vars

\* A burst of BurstCalls calls of execute_hedge on one manager, with
\* TWAP. The
\* collaborators answer as the fixtures do, round by round: a call gets its
\* next answer once every earlier call is further along than it is and no
\* later call is behind it.
BurstCalls == 6

BurstInit ==
    /\ audit_trail = <<>>
    /\ active_executions = <<>>
    /\ task = [t \in 1..BurstCalls |-> IdleTask]
    /\ next_id = 0
    /\ now = 0
    /\ inflight = {}
    /\ orders = <<>>
    /\ raised = {}
    /\ snapshots = <<>>
    /\ sleeps = <<>>
    /\ arg = <<>>
    /\ ret = <<>>
    /\ InitMonitor

BurstNext ==
    \E t \in 1..BurstCalls :
        /\ \A u \in 1..BurstCalls :
               LET Stage(pc) ==
                       CASE pc = "idle" -> 0
                         [] pc = "get_position" -> 1
                         [] pc = "get_market_data" -> 2
                         [] pc = "get_available_venues" -> 3
                         [] pc = "get_order_book" -> 4
                         [] pc = "sleep" -> 5
                         [] pc = "place_order" -> 6
                         [] OTHER -> 7
               IN  \/ Stage(task[u].pc) = 7
                   \/ u < t /\ Stage(task[u].pc) > Stage(task[t].pc)
                   \/ u >= t /\ Stage(task[u].pc) >= Stage(task[t].pc)
        /\ \/ Start(t, "BTC/USDT", One, Lit(2, 1000), TRUE, TRUE)
           \/ SharedStep(t)

BurstSpec ==
    BurstInit /\ [][BurstNext]_vars

\* One call routed over two venues, to buy, to sell and for a hedge of
\* zero. Each venue answers with one of four order books that differ in
\* price or depth only: asks of 100 and 99 on a depth of 50000, asks of 99
\* and of the next float above 99 on a depth of 100000.
RouteNext ==
    \/ \E target_delta \in {One, FromInt(-1), Zero} :
           Start(1, "BTC/USDT", target_delta, Lit(2, 1000), FALSE, FALSE)
    \/ GetPositionReturn(1, [delta |-> Zero])
    \/ GetMarketDataReturn(1, [volatility |-> DefaultVolatility,
                               order_book_liquidity |-> DefaultLiquidity])
    \/ GetVenuesReturn(1, <<"okx", "bybit">>)
    \/ \E order_book \in
           {[best_ask |-> ask, best_bid |-> FromInt(97), depth |-> depth,
             fees |-> Lit(4, 10000), latency |-> Lit(1, 10)] :
                ask \in {FromInt(100), FromInt(99)},
                depth \in {FromInt(50000)}}
           \cup {[best_ask |-> ask, best_bid |-> FromInt(97),
                  depth |-> FromInt(100000),
                  fees |-> Lit(4, 10000), latency |-> Lit(1, 10)] :
                     ask \in {FromInt(99),
                              FRound(0, LAdd(LShl(LFromNat(99), 46), <<1>>),
                                     -46)}} :
           GetOrderBookReturn(1, order_book)
    \/ task[1].pc = "place_order"
           /\ PlaceOrderReturn(1, [filled |-> AwaitedCall(1).quantity,
                                   cost |-> FromInt(10000),
                                   slippage |-> FromInt(1),
                                   fees |-> FromInt(4)])

RouteSpec ==
    Init /\ [][RouteNext]_vars

\* ------------------------------------------------------------------------
\* RiskMonitor (src/risk/monitor.py): start() called up to MaxStarts times
\* on one monitor, stop() called at any time between two awaits.
\* ------------------------------------------------------------------------

\* the passes one call of start may run
MaxPasses == 2

\* start(interval=30), line 17
DefaultInterval == 30

\* asyncio.sleep(5) after an exception, line 30
ErrorDelay == 5

\* the thresholds the monitor is built with, in the order of the dict
thresholds ==
    <<[metric |-> "delta", threshold |-> 2],
      [metric |-> "var", threshold |-> 2]>>

\* what get_risk_metrics returns: a dict that holds the metrics that are not
\* None (metrics.get gives None for a key that is missing as for a None)
Metrics ==
    {[delta |-> -3, var |-> 3], [delta |-> 1], [var |-> 3]}

\* what the collaborators do in one pass: get_risk_metrics raises or
\* returns metrics, alert_callback raises at its call number fails (0: never)
Answers ==
    {[raises |-> TRUE, metrics |-> <<>>, fails |-> 0]}
    \cup {[raises |-> FALSE, metrics |-> m, fails |-> k] :
             m \in Metrics, k \in 0..2}

\* lines 22-24: the thresholds that metrics breach, in the order of the dict
Breaches(metrics) ==
    SelectSeq(thresholds,
              LAMBDA th :
                  /\ th.metric \in DOMAIN metrics
                  /\ (IF metrics[th.metric] < 0 THEN 0 - metrics[th.metric]
                      ELSE metrics[th.metric]) > th.threshold)

\* a pass that ends the call when a collaborator raises: what C39 rules out
PassOrReturn(loop, answer, breaches) ==
    IF answer.raises \/ answer.fails \in 1..Len(breaches)
    THEN [loop EXCEPT !.pc = "returned", !.passes = @ + 1]
    ELSE [loop EXCEPT !.pc = "sleep", !.passes = @ + 1,
                      !.delay = DefaultInterval, !.alerts = breaches]

\* lines 20-31, one pass up to its await: alert_callback is called for each
\* breach until it raises; the call then sleeps for the interval, or for 5
\* seconds when get_risk_metrics or alert_callback raised
Pass(loop, answer, breaches) ==
    IF answer.raises \/ answer.fails \in 1..Len(breaches)
    THEN [loop EXCEPT !.pc = "sleep", !.passes = @ + 1,
                      !.delay = ErrorDelay,
                      !.alerts = SubSeq(breaches, 1, answer.fails)]
    ELSE [loop EXCEPT !.pc = "sleep", !.passes = @ + 1,
                      !.delay = DefaultInterval, !.alerts = breaches]

\* RiskMonitor.start, lines 17-31, from the call to the first await
start(i, answer) ==
    /\ monitor[i].pc = "idle"
    /\ running' = TRUE
    /\ monitor' =
           [monitor EXCEPT
               ![i] = Pass(@, answer,
                           IF answer.raises THEN <<>>
                           ELSE Breaches(answer.metrics))]
    /\ UNCHANGED manager_vars

\* RiskMonitor.start, lines 19-31, when asyncio.sleep returns: the loop test
\* of line 19, then the return or the next pass
resume(i, answer) ==
    /\ monitor[i].pc = "sleep"
    /\ IF running
       THEN /\ monitor[i].passes < MaxPasses
            /\ monitor' =
                   [monitor EXCEPT
                       ![i] = Pass(@, answer,
                                   IF answer.raises THEN <<>>
                                   ELSE Breaches(answer.metrics))]
       ELSE monitor' = [monitor EXCEPT ![i].pc = "returned"]
    /\ UNCHANGED <<running, manager_vars>>

\* RiskMonitor.stop, lines 32-33; stopped marks the calls of start that were
\* in their loop when stop was called
stop ==
    /\ running' = FALSE
    /\ monitor' =
           [i \in Starts |->
               IF monitor[i].pc = "sleep"
               THEN [monitor[i] EXCEPT !.stopped = TRUE]
               ELSE monitor[i]]
    /\ UNCHANGED manager_vars

MonitorNext ==
    \/ \E i \in Starts, answer \in Answers : start(i, answer)
    \/ \E i \in Starts, answer \in Answers : resume(i, answer)
    \/ stop

MonitorSpec ==
    Init /\ [][MonitorNext]_vars

\* The monitor when every asyncio.sleep returns in the end.
FairMonitorSpec ==
    MonitorSpec /\ \A i \in Starts : WF_vars(\E answer \in Answers :
                                                resume(i, answer))

\* ------------------------------------------------------------------------
\* _aggregate_status and _split_into_tranches called on their own.
\* ------------------------------------------------------------------------

\* the longest list of tranche results _aggregate_status is called with
MaxResults == 3

\* the members of ExecutionStatus
Statuses ==
    {PENDING, SUBMITTED, PARTIALLY_FILLED, FILLED, CANCELLED, FAILED}

ResultLists ==
    UNION {[1..n -> {[status |-> st] : st \in Statuses}] : n \in 0..MaxResults}

AggregateInit ==
    /\ InitManager
    /\ arg \in ResultLists
    /\ ret = <<>>

\* _aggregate_status(arg) returns
CallAggregate ==
    /\ ret = <<>>
    /\ ret' = <<aggregate_status(arg)>>
    /\ UNCHANGED <<monitor_vars, audit_trail, active_executions, task, next_id,
                   now, inflight, orders, raised, snapshots, sleeps, arg>>

AggregateSpec ==
    AggregateInit /\ [][CallAggregate]_vars

\* the hedge sizes -MaxQuarters/4 .. MaxQuarters/4 in steps of 1/4
MaxQuarters == 24

\* and -0.0, sizes the fixtures lead to, sizes of a deep book
HedgeSizes ==
    {Lit(k, 4) : k \in -MaxQuarters..MaxQuarters}
    \cup {fneg(Zero), Lit(95, 100), Lit(285, 100), Lit(-57, 10),
          FromInt(100000001), Lit(209729772, 10), Lit(-2000000001, 10)}

SplitInit ==
    /\ InitManager
    /\ arg \in [hedge_size : HedgeSizes, partial : BOOLEAN, twap : BOOLEAN]
    /\ ret = <<>>

\* _split_into_tranches(arg.hedge_size, arg.partial, arg.twap) returns
CallSplit ==
    /\ ret = <<>>
    /\ ret' = <<split_into_tranches(arg.hedge_size, arg.partial, arg.twap)>>
    /\ UNCHANGED <<monitor_vars, audit_trail, active_executions, task, next_id,
                   now, inflight, orders, raised, snapshots, sleeps, arg>>

SplitSpec ==
    SplitInit /\ [][CallSplit]_vars

\* _calculate_optimal_hedge_size as a function of what the two awaits
\* return: volatilities k/VolSteps, deltas k/2 up to MaxHalfDeltas halves,
\* and the two smallest scales of a float: 2^-1074 (5e-324, the smallest
\* positive float) and 2^-1022 (sys.float_info.min, the smallest normal one)
VolSteps == 10

MaxHalfDeltas == 8

CurrentDeltas == {Zero, One, Lit(-5, 2)}

HedgeTargets ==
    {Lit(k, 2) : k \in -MaxHalfDeltas..MaxHalfDeltas}
    \cup {FRound(0, <<1>>, 0 - TinyExp), FRound(1, <<1>>, -1022)}

Volatilities == {Lit(k, VolSteps) : k \in 0..VolSteps} \cup {DefaultVolatility}

\* books of no, little and much liquidity, and feeds that report a
\* negative liquidity
Liquidities ==
    {Zero, FromInt(3), FromInt(30), DefaultLiquidity, FromInt(-3),
     FromInt(-100), FRound(0, <<1>>, 0 - TinyExp), FRound(0, <<1>>, -1022)}

HedgeInit ==
    /\ InitManager
    /\ arg \in [position : {[delta |-> d] : d \in CurrentDeltas},
                market_data : {[volatility |-> v, order_book_liquidity |-> q] :
                               v \in Volatilities, q \in Liquidities},
                target_delta : HedgeTargets]
    /\ ret = <<>>

\* _calculate_optimal_hedge_size returns <<hedge_size, rationale>>
CallHedge ==
    /\ ret = <<>>
    /\ ret' = <<optimal_hedge_size(arg.position, arg.market_data,
                                   arg.target_delta)>>
    /\ UNCHANGED <<monitor_vars, audit_trail, active_executions, task, next_id,
                   now, inflight, orders, raised, snapshots, sleeps, arg>>

HedgeSpec ==
    HedgeInit /\ [][CallHedge]_vars

\* _execute_tranche from the return of place_order on (lines 155-167):
\* tranches and fills of k/2 up to MaxHalfFills halves
MaxHalfFills == 4

TrancheSizes ==
    {Lit(k, 2) : k \in -MaxHalfFills..MaxHalfFills}
    \cup {fneg(Zero), Lit(95, 100)}

\* what place_order returns: a fill or none reported, costs or none
FillReports ==
    {[filled |-> Lit(k, 2), cost |-> FromInt(10000),
      slippage |-> FromInt(1), fees |-> FromInt(4)] : k \in 0..MaxHalfFills}
    \cup {<<>>, [cost |-> FromInt(10000)]}

TrancheInit ==
    /\ InitManager
    /\ arg \in [tranche : TrancheSizes, order_result : FillReports]
    /\ ret = <<>>

\* the dict _execute_tranche returns for the tranche arg.tranche when
\* place_order returned arg.order_result
CallTranche ==
    /\ ret = <<>>
    /\ ret' = <<tranche_result(<<1, 1>>, arg.tranche, arg.order_result, now)>>
    /\ UNCHANGED <<monitor_vars, audit_trail, active_executions, task, next_id,
                   now, inflight, orders, raised, snapshots, sleeps, arg>>

TrancheSpec ==
    TrancheInit /\ [][CallTranche]_vars

\* _cost_benefit_analysis on up to MaxResults tranche results: failed
\* tranches, and tranches whose order reported a fill of 1, of 0.1, a fill
\* with the opposite sign, or nothing
CostInit ==
    /\ InitManager
    /\ arg \in
         [execution_results :
              UNION {[1..n ->
                         {tranche_failure(<<1, 1>>, "Order failed", 0)}
                         \cup {tranche_result(<<1, 1>>, One, order_result, 0) :
                                  order_result \in
                                      {[filled |-> One, cost |-> FromInt(10000),
                                        slippage |-> One, fees |-> FromInt(4)],
                                       [filled |-> Lit(1, 10),
                                        cost |-> Lit(10001, 10),
                                        slippage |-> Lit(1, 10),
                                        fees |-> Lit(4, 10)],
                                       [filled |-> fneg(One),
                                        cost |-> FromInt(10000),
                                        slippage |-> One, fees |-> FromInt(4)],
                                       <<>>}}] : n \in 0..MaxResults},
          target_delta : {Zero, fneg(Zero), One, FromInt(-2), Lit(3, 10)}]
    /\ ret = <<>>

\* _cost_benefit_analysis(arg.execution_results, hedge_size,
\* arg.target_delta) returns; hedge_size is not read
CallCostBenefit ==
    /\ ret = <<>>
    /\ ret' = <<cost_benefit_analysis(arg.execution_results, Zero,
                                      arg.target_delta)>>
    /\ UNCHANGED <<monitor_vars, audit_trail, active_executions, task, next_id,
                   now, inflight, orders, raised, snapshots, sleeps, arg>>

CostSpec ==
    CostInit /\ [][CallCostBenefit]_vars

\* ExecutionAuditTrail.get_records on trails of up to MaxRecords entries
MaxRecords == 3

\* the ids entries are written with: executions and a tranche
EntryIds == {<<1>>, <<2>>, <<1, 1>>}

\* the trails of n entries, the k-th written at time k
Trails ==
    UNION {{[k \in 1..n |->
                [execution_id |-> ids[k], timestamp |-> k,
                 action |-> "start_execution", details |-> [entry |-> k]]] :
            ids \in [1..n -> EntryIds]} : n \in 0..MaxRecords}

\* what get_records is called with: an id, the empty string, or nothing
RecordsInit ==
    /\ InitManager
    /\ arg \in [records : Trails, execution_id : EntryIds \cup {<<>>, None}]
    /\ ret = <<>>

CallGetRecords ==
    /\ ret = <<>>
    /\ ret' = <<get_records(arg.records, arg.execution_id)>>
    /\ UNCHANGED <<monitor_vars, audit_trail, active_executions, task, next_id,
                   now, inflight, orders, raised, snapshots, sleeps, arg>>

RecordsSpec ==
    RecordsInit /\ [][CallGetRecords]_vars

\* ------------------------------------------------------------------------
\* Properties.
\* ------------------------------------------------------------------------

\* the place_order calls of the execution coroutine t runs: the ones the
\* exchange received, the ones it has not answered, the ones that raised
OrdersOf(t) ==
    SelectSeq(orders,
              LAMBDA c : SubSeq(c.caller, 1, 1) = task[t].execution_id)

InflightOf(t) ==
    {c \in inflight : SubSeq(c.caller, 1, 1) = task[t].execution_id}

RaisedIn(t) ==
    {c \in raised : SubSeq(c, 1, 1) = task[t].execution_id}

\* routing found a venue, so that every tranche reaches place_order
Routable(t) ==
    "price" \in DOMAIN task[t].order_params

StatusesOf(execution_results) ==
    {execution_results[i].status : i \in DOMAIN execution_results}

\* what the step in which place_order raised error for the tranche of t
\* leaves behind
FailureRecorded(t, error) ==
    /\ Len(task'[t].execution_results) >= task[t].i
    /\ task'[t].execution_results[task[t].i].status = FAILED
    /\ task'[t].execution_results[task[t].i].error = error
    /\ task[t].i < Len(task[t].tranches) =>
          /\ task'[t].i = task[t].i + 1
          /\ task'[t].pc \in {"sleep", "place_order"}
          /\ task'[t].pc = "place_order" =>
                /\ Len(orders') = Len(orders) + 1
                /\ orders'[Len(orders')].caller =
                       TrancheId(task[t].execution_id, task[t].i + 1)

\* a finished execution that found a venue has sent every tranche to
\* place_order
AllSubmitted ==
    \A t \in Tasks :
        task[t].pc = "done" /\ Routable(t) =>
            /\ Len(task[t].execution_results) = Len(task[t].tranches)
            /\ \A i \in 1..Len(task[t].tranches) :
                   \E k \in 1..Len(orders) :
                       orders[k].caller = TrancheId(task[t].execution_id, i)

\* C1: when place_order raises for a tranche, the result of that tranche is
\* FAILED and carries the error text, and the loop goes on: the next tranche
\* is started in the same step, and an execution that is over has submitted
\* every one of its tranches.
C1_FailedTrancheDoesNotAbort ==
    [][/\ \A t \in Tasks : \A error \in OrderErrors :
              PlaceOrderRaise(t, error) => FailureRecorded(t, error)
       /\ AllSubmitted']_vars

\* a finished execution whose tranche i failed with the error of place_order
\* and whose tranche i + 1 was submitted and filled
C1_LaterTrancheFilled ==
    \E t \in Tasks :
        /\ task[t].pc = "done"
        /\ \E i \in 1..(Len(task[t].execution_results) - 1) :
               /\ task[t].execution_results[i].status = FAILED
               /\ task[t].execution_results[i].error \in OrderErrors
               /\ TrancheId(task[t].execution_id, i) \in raised
               /\ task[t].execution_results[i + 1].status = FILLED
               /\ \E k \in 1..Len(orders) :
                      orders[k].caller =
                          TrancheId(task[t].execution_id, i + 1)

\* C2: _aggregate_status returns FILLED when every status is FILLED,
\* otherwise FAILED when some status is FAILED, otherwise PARTIALLY_FILLED
\* when some status is PARTIALLY_FILLED, otherwise PENDING.
C2_AggregateStatus ==
    ret # <<>> =>
        ret[1] = IF StatusesOf(arg) \subseteq {FILLED} THEN FILLED
                 ELSE IF FAILED \in StatusesOf(arg) THEN FAILED
                 ELSE IF PARTIALLY_FILLED \in StatusesOf(arg)
                      THEN PARTIALLY_FILLED
                 ELSE PENDING

\* one FAILED tranche among FILLED ones gives FAILED
C2_FailedAmongFilled ==
    /\ ret = <<FAILED>>
    /\ Len(arg) = MaxResults
    /\ Cardinality({i \in DOMAIN arg : arg[i].status = FILLED})
           = MaxResults - 1

\* C3: for a call that completes and was given at least one venue, the
\* summary status is FAILED exactly when place_order raised for one of its
\* tranches, and then some execution result carries an 'error' field; when no
\* place_order raised the status is FILLED or PARTIALLY_FILLED.
C3_FailedIffRaised ==
    \A t \in Tasks :
        task[t].pc = "done" /\ task[t].venues # <<>> =>
            /\ task[t].result.status = FAILED <=> RaisedIn(t) # {}
            /\ task[t].result.status = FAILED =>
                   \E i \in DOMAIN task[t].result.execution_results :
                       "error" \in DOMAIN task[t].result.execution_results[i]
            /\ RaisedIn(t) = {} =>
                   task[t].result.status \in {FILLED, PARTIALLY_FILLED}

\* a completed call with a venue, one tranche filled and another one raised
C3_FailedByOneRaise ==
    \E t \in Tasks :
        /\ task[t].pc = "done"
        /\ task[t].venues # <<>>
        /\ task[t].result.status = FAILED
        /\ Cardinality(RaisedIn(t)) = 1
        /\ FILLED \in StatusesOf(task[t].result.execution_results)

\* C4: when get_available_venues returns an empty list, execute_hedge raises
\* NoVenueAvailable before any tranche is created: no tranche is scheduled,
\* no order is placed and no summary is stored in the registry.
C4_NoVenueAborts ==
    [][\A t \in Tasks :
           GetVenuesReturn(t, <<>>) =>
               /\ task'[t].pc = "raised"
               /\ task'[t].error = "NoVenueAvailable"
               /\ task'[t].tranches = <<>>
               /\ orders' = orders
               /\ active_executions' = active_executions]_vars

\* C5: the tranches of one call run one after the other in index order: at
\* most one place_order call of an execution is in flight, the call in flight
\* is the one of the tranche after the last recorded result, and the k-th
\* order the exchange got from an execution is the one of its tranche k.
C5_Sequential ==
    \A t \in Tasks :
        /\ Cardinality(InflightOf(t)) <= 1
        /\ \A c \in InflightOf(t) :
               Len(task[t].execution_results) = c.caller[2] - 1
        /\ \A k \in 1..Len(OrdersOf(t)) : OrdersOf(t)[k].caller[2] = k
        /\ Len(OrdersOf(t)) <= Len(task[t].execution_results) + 1

\* the order of a third tranche is in flight, two results are recorded
C5_ThirdInFlight ==
    \E t \in Tasks :
        /\ task[t].pc = "place_order"
        /\ \E c \in InflightOf(t) : c.caller[2] = 3
        /\ Len(task[t].execution_results) = 2

\* C6: a hedge size of zero gives exactly one tranche of size zero whose
\* result is FILLED with filled = 0, whatever place_order returns or raises,
\* and the summary status is FILLED. (Stated for calls that found a venue.)
C6_ZeroHedgeIsFilled ==
    \A t \in Tasks :
        task[t].pc = "done" /\ task[t].venues # <<>>
            /\ IsZero(task[t].hedge_size) =>
            /\ Len(task[t].tranches) = 1
            /\ IsZero(task[t].tranches[1])
            /\ Len(task[t].execution_results) = 1
            /\ task[t].execution_results[1].status = FILLED
            /\ "filled" \in DOMAIN task[t].execution_results[1]
            /\ IsZero(task[t].execution_results[1].filled)
            /\ task[t].result.status = FILLED

\* C7: aggregating an empty list of tranche results gives PENDING, and
\* aggregating a non-empty list of FILLED, PARTIALLY_FILLED and FAILED
\* results never gives PENDING.
C7_PendingOnlyWhenEmpty ==
    ret # <<>> =>
        /\ arg = <<>> => ret[1] = PENDING
        /\ arg # <<>>
               /\ StatusesOf(arg) \subseteq {FILLED, PARTIALLY_FILLED, FAILED}
               => ret[1] # PENDING

Permuted(execution_results, p) ==
    [k \in 1..Len(execution_results) |-> execution_results[p[k]]]

\* C8: the status of every stored summary is _aggregate_status of its
\* execution_results, and of every reordering of them.
C8_StatusOfMultiset ==
    \A id \in DOMAIN active_executions :
        \A p \in Permutations(1..Len(active_executions[id].execution_results)) :
            active_executions[id].status =
                aggregate_status(
                    Permuted(active_executions[id].execution_results, p))

\* a stored summary whose first tranche failed and whose last one was filled
C8_FailedThenFilled ==
    \E id \in DOMAIN active_executions :
        /\ Len(active_executions[id].execution_results) >= 3
        /\ active_executions[id].execution_results[1].status = FAILED
        /\ active_executions[id].execution_results[
               Len(active_executions[id].execution_results)].status = FILLED
        /\ active_executions[id].status = FAILED

\* the sum of the tranche sizes: exact, and as Python's sum() adds floats
RECURSIVE ExactSum(_, _)
ExactSum(tranches, n) ==
    IF n = 0 THEN FZero(0)
    ELSE xadd(ExactSum(tranches, n - 1), tranches[n])

RECURSIVE FloatSum(_, _)
FloatSum(tranches, n) ==
    IF n = 0 THEN FZero(0)
    ELSE fadd(FloatSum(tranches, n - 1), tranches[n])

\* |x - y| * 10^9 <= scale, exactly
Within(x, y, scale) ==
    xcmp(xmul(fabs(xadd(x, fneg(y))),
              [s |-> 0, m |-> LFromNat(10 ^ 9), e |-> 0]),
         scale) <= 0

\* max(1, |hedge_size|)
Magnitude(hedge_size) ==
    IF fcmp(fabs(hedge_size), One) > 0 THEN fabs(hedge_size) ELSE One

\* C9 as stated: the tranche sizes sum to the hedge size within 1e-9, be it
\* their exact sum or the float sum() computes.
C9_SumWithinAbsoluteTolerance ==
    ret # <<>> =>
        \/ Within(ExactSum(ret[1], Len(ret[1])), arg.hedge_size, One)
        \/ Within(FloatSum(ret[1], Len(ret[1])), arg.hedge_size, One)

\* C9, amended: the tranche sizes sum to the hedge size within
\* 1e-9 * max(1, |hedge_size|), their exact sum and the float sum() computes.
C9_SumWithinRelativeTolerance ==
    ret # <<>> =>
        /\ Within(ExactSum(ret[1], Len(ret[1])), arg.hedge_size,
                  Magnitude(arg.hedge_size))
        /\ Within(FloatSum(ret[1], Len(ret[1])), arg.hedge_size,
                  Magnitude(arg.hedge_size))

\* five tranches whose sum is further than 1e-9 from the hedge size
C9_RoundedTranches ==
    /\ ret # <<>>
    /\ Len(ret[1]) = 5
    /\ ~Within(ExactSum(ret[1], 5), arg.hedge_size, One)
    /\ ~Within(FloatSum(ret[1], 5), arg.hedge_size, One)

\* floor(|hedge_size|) clamped to 2..5
ClampedFloor(floor) ==
    IF LCmp(floor, <<2>>) < 0 THEN 2
    ELSE IF LCmp(floor, <<5>>) > 0 THEN 5
    ELSE floor[1]

\* C10: _split_into_tranches returns one tranche if partial is false or
\* |hedge_size| < 1, min(5, max(2, floor(|hedge_size|))) tranches if partial
\* and twap are true, and two tranches if partial is true and twap is false.
C10_TrancheCount ==
    ret # <<>> =>
        Len(ret[1]) =
            IF ~arg.partial \/ fcmp(fabs(arg.hedge_size), One) < 0 THEN 1
            ELSE IF arg.twap
                 THEN ClampedFloor(FloorInt(fabs(arg.hedge_size)))
            ELSE 2

\* a hedge size between 4 and 5 split into four tranches
C10_FourTranches ==
    /\ ret # <<>>
    /\ arg.partial /\ arg.twap
    /\ fcmp(fabs(arg.hedge_size), FromInt(4)) > 0
    /\ Len(ret[1]) = 4

\* ---- the hedge size ----

HedgeReturned == ret # <<>>

hedge_size_of == ret[1][1]

rationale_of == ret[1][2]

Liquidity == arg.market_data.order_book_liquidity

Volatility == arg.market_data.volatility

\* the size the deltas and the volatility ask for, before the cap
Wanted ==
    fmul(fsub(arg.target_delta, arg.position.delta),
         IF fcmp(fsub(One, Volatility), Half) > 0
         THEN fsub(One, Volatility) ELSE Half)

Cap == fmul(Liquidity, Tenth)

UnitVolatility == fcmp(Volatility, Zero) >= 0 /\ fcmp(Volatility, One) <= 0

\* clamp(x, lo, hi) for lo <= hi
Clamp(x, lo, hi) ==
    IF fcmp(x, lo) < 0 THEN lo ELSE IF fcmp(x, hi) > 0 THEN hi ELSE x

\* C11: for a volatility in [0, 1] and a liquidity >= 0 the hedge size
\* _calculate_optimal_hedge_size returns lies between -0.1 x liquidity and
\* +0.1 x liquidity (the product as the code's doubles give it)
C11_HedgeWithinCap ==
    HedgeReturned /\ UnitVolatility /\ fcmp(Liquidity, Zero) >= 0
        => /\ fcmp(hedge_size_of, Cap) <= 0
           /\ fcmp(hedge_size_of, fneg(Cap)) >= 0

\* a short hedge larger than the book allows has been cut to the cap
C11_CutToCap ==
    /\ HedgeReturned /\ UnitVolatility
    /\ fcmp(Liquidity, Zero) > 0
    /\ fcmp(Wanted, fneg(Cap)) < 0
    /\ fcmp(hedge_size_of, fneg(Cap)) = 0

\* C12: the hedge size is (target - current) x max(0.5, 1 - volatility)
\* clamped to [-0.1 x liquidity, +0.1 x liquidity], and for liquidity
\* 100000, volatility 0.05, current delta 0 and target delta 1 it is 0.95
\* with a volatility factor of 0.95 and a cap of 10000
C12_HedgeFormula ==
    /\ (HedgeReturned /\ fcmp(Liquidity, Zero) >= 0)
           => fcmp(hedge_size_of, Clamp(Wanted, fneg(Cap), Cap)) = 0
    /\ (HedgeReturned /\ Liquidity = FromInt(100000)
        /\ Volatility = Lit(5, 100)
        /\ arg.position.delta = Zero /\ arg.target_delta = One)
           => /\ hedge_size_of = Lit(95, 100)
              /\ rationale_of[5] = FromInt(10000)
              /\ rationale_of[6] = Lit(95, 100)

\* a volatile market has halved a hedge the cap leaves alone
C12_HalvedNotClamped ==
    /\ HedgeReturned
    /\ Volatility = Lit(8, 10)
    /\ arg.target_delta = FromInt(3) /\ arg.position.delta = One
    /\ Liquidity = DefaultLiquidity
    /\ hedge_size_of = One

\* C13: with a liquidity of zero or less the cap is 0 and the hedge size
\* is 0 for every target and current delta
C13_NoLiquidityNoHedge ==
    HedgeReturned /\ fcmp(Liquidity, Zero) <= 0
        => /\ IsZero(rationale_of[5])
           /\ IsZero(hedge_size_of)

\* ---- routing ----

\* the order books the exchange returned to the call of t, in order
SnapshotsOf(t) ==
    SelectSeq(snapshots, LAMBDA b : b.caller = task[t].execution_id)

\* _route_order of t has returned
RoutingOver(t) ==
    task[t].pc \in {"sleep", "place_order", "done"}

\* the scores of the order books S for a hedge of hedge_size
ScoresOf(S, hedge_size) ==
    [k \in DOMAIN S |->
        venue_score(venue_params(S[k].order_book, hedge_size))]

\* the k-th of the scores is the first of the highest
FirstBest(scores, k) ==
    /\ \A j \in DOMAIN scores : fcmp(scores[j], scores[k]) <= 0
    /\ \A j \in 1..(k - 1) : fcmp(scores[j], scores[k]) < 0

\* the locals l after routing over the venues that answered S with scores
RoutedTo(l, S, scores) ==
    /\ Len(S) = Len(l.venues)
    /\ \A k \in DOMAIN S : S[k].venue = l.venues[k]
    /\ \E k \in DOMAIN S :
           /\ FirstBest(scores, k)
           /\ l.venue = l.venues[k]
           /\ l.order_params = venue_params(S[k].order_book, l.hedge_size)
           /\ l.routing_reason[2] = scores[k]

\* C14: _route_order asks for the order book of every venue of the list in
\* order and selects the venue with the highest score, the first of the
\* list among those that tie for it, with the parameters of its order book
C14_FirstBestVenue ==
    \A t \in Tasks :
        RoutingOver(t) /\ task[t].venues # <<>>
            => RoutedTo(task[t], SnapshotsOf(t),
                        ScoresOf(SnapshotsOf(t), task[t].hedge_size))

\* two venues answered with the same order book and the first was selected
C14_TieGoesToFirst ==
    \E t \in Tasks :
        /\ RoutingOver(t)
        /\ Len(SnapshotsOf(t)) = 2
        /\ SnapshotsOf(t)[1].order_book = SnapshotsOf(t)[2].order_book
        /\ task[t].venue = task[t].venues[1]
        /\ task[t].venues[1] # task[t].venues[2]

\* ---- the TWAP delay ----

\* the asyncio.sleep calls of the call of t, in order
SleepsOf(t) ==
    SelectSeq(sleeps, LAMBDA c : SubSeq(c, 1, 1) = task[t].execution_id)

\* the first n tranches of t, one id each
TranchesUpTo(t, n) ==
    [k \in 1..n |-> TrancheId(task[t].execution_id, k)]

CallersOf(t) ==
    [k \in DOMAIN OrdersOf(t) |-> OrdersOf(t)[k].caller]

\* C15: with twap every tranche, the first and an only one included, waits
\* once before its order is submitted, so that n tranches make n waits and
\* (a venue found) n submissions, each after the wait of its tranche;
\* without twap nothing waits
C15_OneDelayPerTranche ==
    \A t \in Tasks :
        /\ ~task[t].twap => SleepsOf(t) = <<>>
        /\ task[t].twap /\ task[t].pc = "sleep"
               => /\ SleepsOf(t) = TranchesUpTo(t, task[t].i)
                  /\ Routable(t)
                         => CallersOf(t) = TranchesUpTo(t, task[t].i - 1)
        /\ task[t].twap /\ task[t].pc = "place_order"
               => /\ SleepsOf(t) = TranchesUpTo(t, task[t].i)
                  /\ CallersOf(t) = TranchesUpTo(t, task[t].i)
        /\ task[t].twap /\ task[t].pc = "done"
               => /\ SleepsOf(t) = TranchesUpTo(t, Len(task[t].tranches))
                  /\ Routable(t)
                         => CallersOf(t)
                                = TranchesUpTo(t, Len(task[t].tranches))

\* a TWAP execution of a single tranche is over: one wait, one order
C15_SingleTrancheWaited ==
    \E t \in Tasks :
        /\ task[t].twap /\ task[t].pc = "done"
        /\ Len(task[t].tranches) = 1
        /\ Len(SleepsOf(t)) = 1
        /\ Len(OrdersOf(t)) = 1

\* ---- the status of a tranche ----

\* place_order reported a filled quantity
Reported == "filled" \in DOMAIN arg.order_result

\* and it is the requested |tranche|
FilledAsRequested ==
    Reported /\ fcmp(arg.order_result.filled, fabs(arg.tranche)) = 0

\* C16 as stated: when place_order returns, the tranche is FILLED if and
\* only if the returned filled quantity equals the requested |tranche|, and
\* PARTIALLY_FILLED in every other case, no filled quantity reported
\* included
C16_FilledIffReportedEqual ==
    ret # <<>>
        => /\ ret[1].status = FILLED <=> FilledAsRequested
           /\ ret[1].status = PARTIALLY_FILLED <=> ~FilledAsRequested

\* C16: when place_order returns, the tranche is FILLED if and only if the
\* returned filled quantity, taken as 0 when none is reported, equals the
\* requested |tranche|, and PARTIALLY_FILLED in every other case
C16_FilledIffEqual ==
    ret # <<>>
        => /\ ret[1].status = FILLED
                  <=> \/ FilledAsRequested
                      \/ ~Reported /\ IsZero(arg.tranche)
           /\ ret[1].status = PARTIALLY_FILLED
                  <=> ~ \/ FilledAsRequested
                        \/ ~Reported /\ IsZero(arg.tranche)

\* a fill larger than the tranche asked for has been classified
C16_OverFillIsPartial ==
    /\ ret # <<>>
    /\ Reported
    /\ fcmp(arg.order_result.filled, fabs(arg.tranche)) > 0
    /\ ret[1].status = PARTIALLY_FILLED

\* ---- no retry ----

\* C17: within one execute_hedge call place_order is invoked at most once
\* per scheduled tranche, whatever the outcomes of the tranches: the calls
\* the exchange received are for different tranches of the schedule
C17_OneOrderPerTranche ==
    \A t \in Tasks :
        /\ Len(OrdersOf(t)) <= Len(task[t].tranches)
        /\ \A j, k \in DOMAIN OrdersOf(t) :
               /\ OrdersOf(t)[j].caller = OrdersOf(t)[k].caller => j = k
               /\ \E n \in DOMAIN task[t].tranches :
                      OrdersOf(t)[k].caller
                          = TrancheId(task[t].execution_id, n)

\* a call is over whose first order raised: two tranches, two orders
C17_FailedNotRetried ==
    \E t \in Tasks :
        /\ task[t].pc = "done"
        /\ Len(task[t].tranches) = 2
        /\ TrancheId(task[t].execution_id, 1) \in RaisedIn(t)
        /\ Len(OrdersOf(t)) = 2

\* ---- the audit trail ----

\* s is the beginning of t
IsPrefix(s, t) ==
    Len(s) <= Len(t) /\ SubSeq(t, 1, Len(s)) = s

\* C18: the audit trail is append-only: whatever calls of execute_hedge
\* run, complete, fail or interleave, and whatever is read from the trail,
\* every step leaves the entries written so far in place and unchanged, so
\* that the trail of an earlier moment is a prefix of that of a later one
C18_AppendOnly ==
    [][IsPrefix(audit_trail, audit_trail')]_vars

\* the entries of two executions interleave in the trail and it was read
C18_InterleavedAndRead ==
    /\ ret # <<>>
    /\ \E i, j, k \in DOMAIN audit_trail :
           /\ i < j /\ j < k
           /\ audit_trail[i].execution_id = <<1>>
           /\ audit_trail[j].execution_id = <<2>>
           /\ audit_trail[k].execution_id = <<1>>

\* the ids of the entries written so far
IdsWritten ==
    {audit_trail[k].execution_id : k \in DOMAIN audit_trail}

NonDecreasing(records) ==
    \A j, k \in DOMAIN records :
        j < k => records[j].timestamp <= records[k].timestamp

\* C19: for every id the entries get_records returns for it are in
\* non-decreasing timestamp order, also when calls of execute_hedge
\* interleave their writes (the clock read by log never going back)
C19_TimestampOrder ==
    \A execution_id \in IdsWritten :
        NonDecreasing(get_records(audit_trail, execution_id))

\* an execution wrote at time 0 and at time 2 and another one in between
C19_InterleavedInTime ==
    \E i, j, k \in DOMAIN audit_trail :
        /\ i < j /\ j < k
        /\ audit_trail[i].execution_id = <<1>>
        /\ audit_trail[j].execution_id = <<2>>
        /\ audit_trail[k].execution_id = <<1>>
        /\ audit_trail[i].timestamp < audit_trail[j].timestamp
        /\ audit_trail[j].timestamp < audit_trail[k].timestamp

\* ---- reading the audit trail ----

\* the entries of records with id execution_id, in the order written
RECURSIVE EntriesOf(_, _)
EntriesOf(records, execution_id) ==
    IF records = <<>> THEN <<>>
    ELSE IF Head(records).execution_id = execution_id
         THEN <<Head(records)>> \o EntriesOf(Tail(records), execution_id)
         ELSE EntriesOf(Tail(records), execution_id)

\* C20: get_records(id) returns exactly the entries whose id equals the
\* given id, in the order they were written, and get_records with no id
\* returns all entries in the order they were written
C20_EntriesOfId ==
    ret # <<>>
        => ret[1] = IF arg.execution_id = None
                    THEN arg.records
                    ELSE EntriesOf(arg.records, arg.execution_id)

\* ---- the entries of one execution ----

ActionsOf(records) ==
    [k \in DOMAIN records |-> records[k].action]

\* the places in the trail of the entries with this id and action
PlacesOf(execution_id, action) ==
    {k \in DOMAIN audit_trail :
        /\ audit_trail[k].execution_id = execution_id
        /\ audit_trail[k].action = action}

\* the places of the entries written under the tranche ids of the call of t
TranchePlaces(t) ==
    {k \in DOMAIN audit_trail :
        /\ Len(audit_trail[k].execution_id) = 2
        /\ SubSeq(audit_trail[k].execution_id, 1, 1) = task[t].execution_id}

\* C21: after a completed call the entries under its execution id are, in
\* this order and once each, start_execution, hedge_size_calculated,
\* order_routed, tranches_created, execution_status, cost_benefit,
\* execution_complete, and every entry of its tranches lies after
\* tranches_created and before execution_status
C21_EntriesInOrder ==
    \A t \in Tasks :
        task[t].pc = "done"
            => /\ ActionsOf(get_records(audit_trail, task[t].execution_id))
                      = <<"start_execution", "hedge_size_calculated",
                          "order_routed", "tranches_created",
                          "execution_status", "cost_benefit",
                          "execution_complete">>
               /\ \A k \in TranchePlaces(t) :
                      /\ \A j \in PlacesOf(task[t].execution_id,
                                           "tranches_created") : j < k
                      /\ \A j \in PlacesOf(task[t].execution_id,
                                           "execution_status") : k < j

\* a call of three tranches is over and each of them left two entries
C21_ThreeTranchesLogged ==
    \E t \in Tasks :
        /\ task[t].pc = "done"
        /\ Len(task[t].tranches) = 3
        /\ Cardinality(TranchePlaces(t)) = 6

\* ---- execution ids ----

\* the calls made so far
Started == {t \in DOMAIN task : task[t].pc # "idle"}

\* the execution id an entry belongs to: its id, or the id its tranche id
\* begins with
OwnerOf(entry) == SubSeq(entry.execution_id, 1, 1)

\* C22: however the calls interleave, their execution ids are pairwise
\* distinct and every entry is written by the call that owns its id: the
\* step that appends an entry is a step of the call whose execution id the
\* entry carries (alone or at the head of a tranche id)
C22_EntriesOfOwner ==
    [][/\ \A t, u \in Started' :
              task'[t].execution_id = task'[u].execution_id => t = u
       /\ \A k \in (Len(audit_trail) + 1)..Len(audit_trail') :
              \E t \in Started' :
                  /\ task'[t] # task[t]
                  /\ OwnerOf(audit_trail'[k]) = task'[t].execution_id]_vars

\* two calls are over whose entries alternate in the trail
C22_BothDoneInterleaved ==
    /\ \A t \in Tasks : task[t].pc = "done"
    /\ \E i, j, k, n \in DOMAIN audit_trail :
           /\ i < j /\ j < k /\ k < n
           /\ OwnerOf(audit_trail[i]) = OwnerOf(audit_trail[k])
           /\ OwnerOf(audit_trail[j]) = OwnerOf(audit_trail[n])
           /\ OwnerOf(audit_trail[i]) # OwnerOf(audit_trail[j])

\* ---- the registry ----

\* the calls that have returned a summary
Returned == {t \in DOMAIN task : task[t].pc = "done"}

\* C23: once a call has returned its summary, get_active_executions() maps
\* its execution id to that summary; no step removes or overwrites a
\* mapping, also when other calls complete in between, and the registry
\* has as many entries as calls have completed
C23_RegistryKeepsSummaries ==
    [][/\ \A k \in DOMAIN active_executions :
              /\ k \in DOMAIN active_executions'
              /\ active_executions'[k] = active_executions[k]
       /\ \A t \in Returned' :
              /\ task'[t].execution_id \in DOMAIN active_executions'
              /\ active_executions'[task'[t].execution_id] = task'[t].result
       /\ Cardinality(DOMAIN active_executions') = Cardinality(Returned')]_vars

\* two calls have completed, the second while the first was still running
C23_TwoSummaries ==
    /\ Cardinality(DOMAIN active_executions) = 2
    /\ \E i, j \in DOMAIN audit_trail :
           /\ i < j
           /\ audit_trail[i].execution_id = <<2>>
           /\ audit_trail[i].action = "execution_complete"
           /\ audit_trail[j].execution_id = <<1>>
           /\ audit_trail[j].action = "execution_complete"

\* ---- request-level errors ----

\* the call of t has raised to its caller
Aborted(t) == task[t].pc = "raised"

\* C24: when get_position, get_market_data, get_available_venues or
\* get_order_book raises, execute_hedge raises that error to its caller in
\* the same step, writing nothing; the call has placed no order, places
\* none afterwards, and no summary is stored under its execution id
C24_RequestErrorAborts ==
    [][\A t \in Tasks :
           /\ ~Aborted(t) /\ Aborted(t)'
                  => /\ task[t].pc \in {"get_position", "get_market_data",
                                        "get_available_venues",
                                        "get_order_book"}
                     /\ task'[t].error \in RequestErrors
                     /\ task'[t].execution_id = task[t].execution_id
                     /\ audit_trail' = audit_trail
           /\ Aborted(t) => Aborted(t)'
           /\ Aborted(t)'
                  => /\ \A k \in DOMAIN orders' :
                            SubSeq(orders'[k].caller, 1, 1)
                                # task'[t].execution_id
                     /\ task'[t].execution_id
                            \notin DOMAIN active_executions']_vars

\* get_order_book raised for the second venue after the first had answered
C24_SecondVenueFailed ==
    \E t \in Tasks :
        /\ Aborted(t)
        /\ Len(SnapshotsOf(t)) = 1

\* ---- malformed requests ----

\* the call of t was made with this symbol
CalledWith(t, symbol) ==
    \E k \in DOMAIN audit_trail :
        /\ audit_trail[k].execution_id = task[t].execution_id
        /\ audit_trail[k].action = "start_execution"
        /\ audit_trail[k].details.symbol = symbol

\* C25: a call of execute_hedge with an empty symbol is rejected with an
\* error before any tranche is created: it never gets to its tranches,
\* places no order and stores no summary
C25_EmptySymbolRejected ==
    \A t \in Started :
        CalledWith(t, "")
            => /\ ~RoutingOver(t)
               /\ task[t].tranches = <<>>
               /\ OrdersOf(t) = <<>>
               /\ task[t].execution_id \notin DOMAIN active_executions

\* ---- calls in flight ----

\* the get_order_book and place_order calls a venue has not answered yet
InFlightAt(venue) ==
    Cardinality({t \in DOMAIN task :
                    /\ task[t].pc = "get_order_book"
                    /\ task[t].venues[task[t].vi] = venue})
        + Cardinality({c \in inflight : c.venue = venue})

\* C26: over all the calls of execute_hedge that are running, no venue has
\* more than 5 external calls in flight at the same time
C26_AtMostFiveInFlight ==
    \A t \in DOMAIN task :
        \A k \in DOMAIN task[t].venues :
            InFlightAt(task[t].venues[k]) <= 5

\* ---- cost and benefit ----

\* what each tranche result adds to a total: the value it reports, 0 if it
\* failed
Contributions(execution_results, key) ==
    [i \in 1..Len(execution_results) |->
        IF execution_results[i].status = FAILED THEN Zero
        ELSE execution_results[i][key]]

\* q is x / y: the float quotient, and q * y is x up to rounding
Quotient(q, x, y) ==
    /\ q = fdiv(x, y)
    /\ Within(xmul(q, y), x, fabs(x))

CostBenefitOf(cb, execution_results, target_delta, n) ==
    /\ cb.total_cost = FloatSum(Contributions(execution_results, "cost"), n)
    /\ cb.total_fees = FloatSum(Contributions(execution_results, "fees"), n)
    /\ cb.total_slippage
           = FloatSum(Contributions(execution_results, "slippage"), n)
    /\ cb.filled = FloatSum(Contributions(execution_results, "filled"), n)
    /\ (IsZero(target_delta) => cb.benefit = Zero)
    /\ (~IsZero(target_delta) =>
           /\ fcmp(cb.benefit, Zero) >= 0
           /\ Quotient(cb.benefit, fabs(cb.filled), fabs(target_delta)))
    /\ (IsZero(cb.filled) => cb.cost_per_unit = Zero)
    /\ (~IsZero(cb.filled) =>
           Quotient(cb.cost_per_unit, cb.total_cost, cb.filled))

\* C27: _cost_benefit_analysis returns the sums of cost, fees, slippage and
\* filled over the tranche results, a failed tranche adding 0 to each;
\* benefit is |filled| / |target_delta|, 0 for a target of 0;
\* cost_per_unit is total_cost / filled, 0 when nothing was filled
C27_CostBenefit ==
    ret # <<>> =>
        CostBenefitOf(ret[1], arg.execution_results, arg.target_delta,
                      Len(arg.execution_results))

\* a failed tranche among fills of both signs, hedging a short target
C27_FailedAmongFills ==
    /\ ret # <<>>
    /\ \E i \in DOMAIN arg.execution_results :
           arg.execution_results[i].status = FAILED
    /\ \E i \in DOMAIN arg.execution_results :
           /\ arg.execution_results[i].status # FAILED
           /\ fcmp(arg.execution_results[i].filled, Zero) < 0
    /\ fcmp(arg.target_delta, Zero) < 0
    /\ ~IsZero(ret[1].filled)
    /\ ~IsZero(ret[1].benefit)
    /\ ~IsZero(ret[1].cost_per_unit)

\* ---- a hedge of zero ----

\* sys.float_info.min
SmallestNormal == FRound(0, <<1>>, -1022)

\* |target_delta - current_delta|, exactly
DeltaGap == fabs(xadd(arg.target_delta, fneg(arg.position.delta)))

\* C28 as stated: with a positive liquidity and a volatility in [0, 1] the
\* hedge size is zero exactly when the target delta equals the delta of the
\* position held
C28_ZeroIffOnTarget ==
    (HedgeReturned /\ UnitVolatility /\ fcmp(Liquidity, Zero) > 0)
        => (IsZero(hedge_size_of)
               <=> fcmp(arg.target_delta, arg.position.delta) = 0)

\* C28, amended: with a volatility in [0, 1] and a liquidity of at least
\* the smallest normal float, the hedge size is zero when the target delta
\* equals the delta of the position held, and is not zero when the two
\* differ by at least the smallest normal float
C28_ZeroOnTargetOnly ==
    (HedgeReturned /\ UnitVolatility
     /\ fcmp(Liquidity, SmallestNormal) >= 0)
        => /\ fcmp(arg.target_delta, arg.position.delta) = 0
                  => IsZero(hedge_size_of)
           /\ xcmp(DeltaGap, SmallestNormal) >= 0
                  => ~IsZero(hedge_size_of)

\* the smallest gap and the smallest book the amended claim covers, at the
\* highest volatility: half the gap is cut to a tenth of the book, a
\* subnormal number
C28_SmallestGapAndBook ==
    /\ HedgeReturned
    /\ Volatility = One
    /\ Liquidity = SmallestNormal
    /\ arg.position.delta = Zero
    /\ arg.target_delta = fneg(SmallestNormal)
    /\ Wanted = fneg(FRound(0, <<1>>, -1023))
    /\ hedge_size_of = fneg(Cap)
    /\ ~IsZero(hedge_size_of)

\* ---- the entries of a tranche ----

\* the tranche with this id of the call of t, of size tranche: its start
\* entry, one at most, is there once place_order has been called for it
\* and records its size; its result entry, one at most, is there once it
\* has finished and not before, lies after the start entry and records
\* its result
TrancheRecorded(t, n, id, starts, results) ==
    /\ Cardinality(starts) <= 1
    /\ Cardinality(results) <= 1
    /\ (\E k \in DOMAIN orders : orders[k].caller = id)
           => /\ Cardinality(starts) = 1
              /\ \A j \in starts :
                     audit_trail[j].details.size = task[t].tranches[n]
    /\ (\E c \in inflight : c.caller = id) => results = {}
    /\ (results # {} <=> n <= Len(task[t].execution_results))
    /\ \A k \in results :
           /\ \A j \in starts : j < k
           /\ audit_trail[k].details = task[t].execution_results[n]

\* C29: for each tranche exactly one tranche_execution_start entry with the
\* tranche's id is written before place_order is called for it, and exactly
\* one tranche_execution_result entry is written after it has finished
C29_OneStartOneResult ==
    \A t \in Tasks :
        \A n \in DOMAIN task[t].tranches :
            TrancheRecorded(
                t, n, TrancheId(task[t].execution_id, n),
                PlacesOf(TrancheId(task[t].execution_id, n),
                         "tranche_execution_start"),
                PlacesOf(TrancheId(task[t].execution_id, n),
                         "tranche_execution_result"))

\* the second order of a call is in flight: its tranche has a start entry
\* and no result entry, the first tranche has both
C29_SecondOrderInFlight ==
    \E t \in Tasks :
        /\ \E c \in inflight : c.caller = TrancheId(task[t].execution_id, 2)
        /\ PlacesOf(TrancheId(task[t].execution_id, 2),
                    "tranche_execution_start") # {}
        /\ PlacesOf(TrancheId(task[t].execution_id, 2),
                    "tranche_execution_result") = {}
        /\ PlacesOf(TrancheId(task[t].execution_id, 1),
                    "tranche_execution_result") # {}

\* ---- the tranche results in the trail of the execution ----

\* C30: after a completed call get_audit_trail(execution_id) holds one
\* tranche_execution_result entry for each of its tranches
C30_ResultsInExecutionTrail ==
    \A t \in Tasks :
        task[t].pc = "done"
            => Len(SelectSeq(get_records(audit_trail, task[t].execution_id),
                             LAMBDA r : r.action = "tranche_execution_result"))
                   = Len(task[t].tranches)

\* ---- the trail in the summary ----

\* C31: the audit_trail field of the summary execute_hedge returned is what
\* get_audit_trail(execution_id) returns after the call: every entry of
\* the execution id, execution_complete included
C31_SummaryHoldsTrail ==
    \A t \in Tasks :
        task[t].pc = "done"
            => task[t].result.audit_trail
                   = get_records(audit_trail, task[t].execution_id)

\* ---- the score of a venue ----

\* the price of an order book that counts for a hedge of hedge_size
BookPrice(order_book, hedge_size) ==
    IF fcmp(hedge_size, Zero) > 0
    THEN order_book.best_ask ELSE order_book.best_bid

\* -|price| - fee x 1000 - latency x 10 + depth x 0.01, in floats from left
\* to right
ScoreOf(order_book, price) ==
    fadd(fsub(fsub(fneg(fabs(price)),
                   fmul(order_book.fees, FromInt(1000))),
              fmul(order_book.latency, FromInt(10))),
         fmul(order_book.depth, Lit(1, 100)))

SameButPrice(b1, b2) ==
    b1.fees = b2.fees /\ b1.latency = b2.latency /\ b1.depth = b2.depth

\* the venue selected: the k-th asked, with its price and its score
Selected(l, k, price, score) ==
    /\ l.venue = l.venues[k]
    /\ l.order_params.price = price
    /\ l.routing_reason[2] = score

\* routing over the order books b1 and b2 with prices p1, p2 and scores
\* s1, s2: the second venue is selected when it scores higher, else the
\* first; of two venues that differ in price only the cheaper never
\* scores lower
RoutedByScore(l, b1, b2, p1, p2, s1, s2) ==
    /\ IF fcmp(s2, s1) > 0
       THEN Selected(l, 2, p2, s2) ELSE Selected(l, 1, p1, s1)
    /\ (SameButPrice(b1, b2) /\ fcmp(fabs(p2), fabs(p1)) < 0)
           => fcmp(s2, s1) >= 0
    /\ (SameButPrice(b1, b2) /\ fcmp(fabs(p1), fabs(p2)) <= 0)
           => l.venue = l.venues[1]
    /\ (p1 = FromInt(100) /\ b1.depth = FromInt(50000))
           => s1 = Lit(3986, 10)
    /\ (p1 = FromInt(100) /\ p2 = FromInt(99) /\ SameButPrice(b1, b2))
           => l.venue = l.venues[2]

\* C32 as stated: the selected venue has the score
\* -|price| - fee x 1000 - latency x 10 + depth x 0.01 of its price (best_ask
\* for a hedge > 0, best_bid otherwise), and of two venues equal in fee,
\* latency and depth the one with the lower price is selected for a buy
C32_LowerPriceSelected ==
    \A t \in Tasks :
        (RoutingOver(t) /\ Len(SnapshotsOf(t)) = 2
         /\ fcmp(task[t].hedge_size, Zero) > 0
         /\ SameButPrice(SnapshotsOf(t)[1].order_book,
                         SnapshotsOf(t)[2].order_book))
            => \A j, k \in 1..2 :
                   fcmp(SnapshotsOf(t)[k].order_book.best_ask,
                        SnapshotsOf(t)[j].order_book.best_ask) < 0
                       => Selected(task[t], k,
                                   SnapshotsOf(t)[k].order_book.best_ask,
                                   ScoreOf(SnapshotsOf(t)[k].order_book,
                                           SnapshotsOf(t)[k].order_book.best_ask))

\* C32, amended: the score is as stated and the venue with the higher
\* score is selected, the first on a tie; of two venues equal in fee,
\* latency and depth the cheaper never scores lower, so it is selected
\* unless the two scores round to the same float and the other venue was
\* asked first; prices 100 and 99 on a depth of 50000 score 398.6 and
\* 399.6 and the second is selected
C32_ScoreAndCheaperVenue ==
    \A t \in Tasks :
        (RoutingOver(t) /\ Len(SnapshotsOf(t)) = 2)
            => RoutedByScore(
                   task[t],
                   SnapshotsOf(t)[1].order_book, SnapshotsOf(t)[2].order_book,
                   BookPrice(SnapshotsOf(t)[1].order_book, task[t].hedge_size),
                   BookPrice(SnapshotsOf(t)[2].order_book, task[t].hedge_size),
                   ScoreOf(SnapshotsOf(t)[1].order_book,
                           BookPrice(SnapshotsOf(t)[1].order_book,
                                     task[t].hedge_size)),
                   ScoreOf(SnapshotsOf(t)[2].order_book,
                           BookPrice(SnapshotsOf(t)[2].order_book,
                                     task[t].hedge_size)))

\* a buy routed over two venues of the same fee, latency and depth: the
\* second asks less, by so little that the scores are the same float, and
\* the first has been selected
C32_CheaperOnTieNotSelected ==
    \E t \in Tasks :
        /\ RoutingOver(t) /\ Len(SnapshotsOf(t)) = 2
        /\ fcmp(task[t].hedge_size, Zero) > 0
        /\ SameButPrice(SnapshotsOf(t)[1].order_book,
                        SnapshotsOf(t)[2].order_book)
        /\ fcmp(SnapshotsOf(t)[2].order_book.best_ask,
                SnapshotsOf(t)[1].order_book.best_ask) < 0
        /\ task[t].venue = task[t].venues[1]
        /\ task[t].routing_reason[2]
               = ScoreOf(SnapshotsOf(t)[2].order_book,
                         SnapshotsOf(t)[2].order_book.best_ask)

\* ---- the statuses in use ----

Terminal == {FILLED, PARTIALLY_FILLED, FAILED}

\* C33: every tranche result of execute_hedge, in its locals, in the trail
\* and in a summary, and every status of a summary, returned or stored, is
\* FILLED, PARTIALLY_FILLED or FAILED: never PENDING, SUBMITTED or CANCELLED
C33_TerminalStatuses ==
    /\ \A t \in Tasks :
           /\ StatusesOf(task[t].execution_results) \subseteq Terminal
           /\ task[t].pc = "done"
                  => /\ task[t].result.status \in Terminal
                     /\ StatusesOf(task[t].result.execution_results)
                            \subseteq Terminal
    /\ \A id \in DOMAIN active_executions :
           /\ active_executions[id].status \in Terminal
           /\ StatusesOf(active_executions[id].execution_results)
                  \subseteq Terminal
    /\ \A k \in DOMAIN audit_trail :
           /\ audit_trail[k].action = "tranche_execution_result"
                  => audit_trail[k].details.status \in Terminal
           /\ audit_trail[k].action = "execution_status"
                  => audit_trail[k].details.status \in Terminal

\* a summary of filled and partially filled tranches, none failed
C33_PartialAmongFilled ==
    \E t \in Tasks :
        /\ task[t].pc = "done"
        /\ StatusesOf(task[t].result.execution_results)
               = {FILLED, PARTIALLY_FILLED}
        /\ task[t].result.status = PARTIALLY_FILLED

\* ---- the orders of one execution ----

\* the order_routed entries of the call of t
RoutedEntries(t) ==
    SelectSeq(get_records(audit_trail, task[t].execution_id),
              LAMBDA r : r.action = "order_routed")

\* the order c of the tranche of size tranche, after routing to venue with
\* order_params
OrderOfTranche(c, tranche, venue, order_params) ==
    /\ c.venue = venue
    /\ c.price = order_params.price
    /\ c.quantity = fabs(tranche)
    /\ c.side = IF fcmp(tranche, Zero) > 0 THEN "buy" ELSE "sell"

\* C34: the tranches of an execution are equal and have the sign of the
\* hedge size; every order of the execution goes to the venue and at the
\* price routing chose (as the order_routed entry has them, and as the
\* call still holds them), for |tranche size|, a buy for a positive
\* tranche and a sell otherwise
C34_SameVenueAndPrice ==
    \A t \in Tasks :
        /\ \A n \in DOMAIN task[t].tranches :
               /\ task[t].tranches[n] = task[t].tranches[1]
               /\ task[t].tranches[n].s = task[t].hedge_size.s
               /\ IsZero(task[t].tranches[n]) <=> IsZero(task[t].hedge_size)
        /\ OrdersOf(t) # <<>> => Len(RoutedEntries(t)) = 1
        /\ \A k \in DOMAIN OrdersOf(t) :
               /\ OrderOfTranche(OrdersOf(t)[k],
                                 task[t].tranches[OrdersOf(t)[k].caller[2]],
                                 RoutedEntries(t)[1].details.venue,
                                 RoutedEntries(t)[1].details.order_params)
               /\ OrderOfTranche(OrdersOf(t)[k],
                                 task[t].tranches[OrdersOf(t)[k].caller[2]],
                                 task[t].venue, task[t].order_params)

\* a short hedge in five tranches: five sell orders have been submitted
C34_FiveSells ==
    \E t \in Tasks :
        /\ Len(task[t].tranches) = 5
        /\ Len(OrdersOf(t)) = 5
        /\ \A k \in 1..5 : OrdersOf(t)[k].side = "sell"
        /\ fcmp(task[t].hedge_size, Zero) < 0

\* ---- one result per tranche ----

\* the summary has one result for each of the tranches, in their order and
\* under their ids
ResultPerTranche(summary, tranches) ==
    /\ Len(summary.execution_results) = Len(tranches)
    /\ Len(tranches) \in 1..5
    /\ \A i \in DOMAIN summary.execution_results :
           summary.execution_results[i].tranche_id
               = TrancheId(summary.execution_id, i)

\* C35: every summary of execute_hedge, returned or stored, holds one
\* result for each scheduled tranche, 1 to 5 of them, in tranche order, the
\* i-th with the tranche id '<execution_id>_tranche_<i>'
C35_ResultPerTranche ==
    \A t \in Tasks :
        task[t].pc = "done"
            => /\ ResultPerTranche(task[t].result, task[t].tranches)
               /\ ResultPerTranche(active_executions[task[t].execution_id],
                                   task[t].tranches)
               /\ task[t].result.execution_id = task[t].execution_id

\* a summary of five results, the second of them failed
C35_FiveResultsOneFailed ==
    \E t \in Tasks :
        /\ task[t].pc = "done"
        /\ Len(task[t].result.execution_results) = 5
        /\ task[t].result.execution_results[2].status = FAILED
        /\ task[t].result.execution_results[5].status # FAILED

\* ---- who is in the registry ----

\* the call of t has a result for every tranche and has written its
\* execution_status and cost_benefit entries
Settled(t) ==
    /\ task[t].pc = "done"
    /\ task[t].tranches # <<>>
    /\ Len(task[t].execution_results) = Len(task[t].tranches)
    /\ \A n \in DOMAIN task[t].tranches :
           PlacesOf(TrancheId(task[t].execution_id, n),
                    "tranche_execution_result") # {}
    /\ PlacesOf(task[t].execution_id, "execution_status") # {}
    /\ PlacesOf(task[t].execution_id, "cost_benefit") # {}

\* C36: an execution id is a key of get_active_executions() only when its
\* call has recorded a result for every tranche and written its
\* execution_status and cost_benefit entries; a call in flight or aborted
\* has no entry
C36_OnlySettledRegistered ==
    /\ \A id \in DOMAIN active_executions :
           \E t \in Tasks : task[t].execution_id = id
    /\ \A t \in Tasks :
           task[t].execution_id \in DOMAIN active_executions => Settled(t)

\* one call is in the registry while another, started before it, still
\* waits for its order and is not
C36_OneInOneOut ==
    \E t, u \in Tasks :
        /\ u < t
        /\ task[t].execution_id \in DOMAIN active_executions
        /\ task[u].pc = "place_order"
        /\ task[u].execution_id \notin DOMAIN active_executions

\* ---- direction and size of the hedge ----

\* target_delta - current_delta: exactly, and as the code's floats give it
ExactGap == xadd(arg.target_delta, fneg(arg.position.delta))

FloatGap == fsub(arg.target_delta, arg.position.delta)

\* C37 as stated: for a volatility in [0, 1] and a liquidity >= 0 the hedge
\* size has the sign of target - current and is at most |target - current|
C37_SameSignNoOvershoot ==
    (HedgeReturned /\ UnitVolatility /\ fcmp(Liquidity, Zero) >= 0)
        => /\ XSign(hedge_size_of) = XSign(ExactGap)
           /\ xcmp(fabs(hedge_size_of), fabs(ExactGap)) <= 0

\* C37, amended: for a volatility in [0, 1] and a liquidity >= 0 the hedge
\* size is zero or has the sign of target - current, and it is at most
\* |target - current| as the float subtraction gives it
C37_NoFlipNoOvershoot ==
    (HedgeReturned /\ UnitVolatility /\ fcmp(Liquidity, Zero) >= 0)
        => /\ XSign(hedge_size_of) \in {0, XSign(ExactGap)}
           /\ fcmp(fabs(hedge_size_of), fabs(FloatGap)) <= 0

\* a target of 5e-324 for a position of 1 in a calm market: the hedge is
\* -1.0, the float difference, one step more than the exact difference
C37_RoundedGapHedged ==
    /\ HedgeReturned
    /\ Volatility = Zero
    /\ Liquidity = DefaultLiquidity
    /\ arg.position.delta = One
    /\ arg.target_delta = FRound(0, <<1>>, 0 - TinyExp)
    /\ hedge_size_of = FromInt(-1)
    /\ xcmp(fabs(hedge_size_of), fabs(ExactGap)) > 0

\* ---- termination ----

\* the call of t is over: a request raised, or the summary was returned
\* after the execution_complete entry and at most 5 orders
Over(t) ==
    \/ task[t].pc = "raised"
    \/ /\ task[t].pc = "done"
       /\ PlacesOf(task[t].execution_id, "execution_complete") # {}
       /\ Len(OrdersOf(t)) <= 5

\* C38: when every external call returns or raises in the end, a call of
\* execute_hedge that has started is over in the end: a request-level call
\* raised, or it has written its execution_complete entry after at most 5
\* order submissions
C38_Terminates ==
    \A t \in Tasks : (task[t].pc # "idle") ~> Over(t)

\* a call with the TWAP delay is over after five orders, one of which
\* raised
C38_OverAfterFiveOrders ==
    \E t \in Tasks :
        /\ Over(t) /\ task[t].pc = "done" /\ task[t].twap
        /\ Len(OrdersOf(t)) = 5
        /\ RaisedIn(t) # {}

\* ---- RiskMonitor ----

\* C39: after stop() is called on a call of start that is in its loop, that
\* call starts no further pass
C39_NoPassAfterStop ==
    [][\A i \in Starts :
           monitor[i].stopped => monitor'[i].passes = monitor[i].passes]_vars

\* C39, its first half: no pass ends a call of start, whatever the
\* collaborators raise, and a call returns only from its sleep with running
\* False, which only stop() sets
C39_OnlyStopEndsLoop ==
    [][\A i \in Starts :
           /\ (monitor'[i].passes > monitor[i].passes)
                  => (monitor'[i].pc = "sleep")
           /\ (monitor'[i].pc = "returned" /\ monitor[i].pc # "returned")
                  => (monitor[i].pc = "sleep" /\ ~running)]_vars

\* C39, when start() is not called again: a call of start that stop() was
\* called on returns, unless the monitor is started again first
C39_StoppedReturns ==
    \A i \in Starts :
        (monitor[i].stopped /\ ~running)
            ~> (monitor[i].pc = "returned" \/ running)

\* a call of start that stop() was called on runs a pass after another call
\* of start
C39_RevivedByRestart ==
    \E i, j \in Starts :
        /\ i # j /\ monitor[i].stopped /\ monitor[i].passes = 2
        /\ monitor[j].pc = "sleep" /\ running

====
